---- MODULE Spec2Model ----
(***************************************************************************)
(* A model of the STK Connect client library (package stk): the protocol   *)
(* clients Connect / AsyncConnect of stk/connect.py, the legacy STKConnect *)
(* of stk/__init__.py and the Run facade of stk/stk.py.                    *)
(*                                                                         *)
(* Bytes and text are TLA+ strings; TLC evaluates Len, \o, SubSeq, Head    *)
(* and Tail on strings, so Python's slices are computed as the code        *)
(* computes them.                                                          *)
(***************************************************************************)
EXTENDS Integers, Sequences, FiniteSets, TLC

VARIABLES
    variant,            \* the client class: "Connect", "AsyncConnect" or "STKConnect"
    ack,                \* self.ack
    connect_attempts,   \* self.connect_attempts
    send_attempts,      \* self.send_attempts
    timeout,            \* self.timeout, in ticks of the model's clock
    hasQueue,           \* the Run facade has a _queue attribute (run() launched on Linux)
    queue,              \* Run._queue: diagnostic lines not yet consumed
    socket,             \* self.socket: 0 is None, otherwise the id of a socket object
    sockState,          \* the state of every socket object created so far
    tx,                 \* the writes made on the current socket, in order
    rx,                 \* bytes sent by the remote and not yet received by the client
    remoteAck,          \* the remote's acknowledgement mode on the current connection
    pc,                 \* the position of the client's single thread
    op,                 \* the API call in progress, or the one that completed last
    message,            \* send(): the command
    attempts,           \* send(): the attempt budget
    send_attempt,       \* send(): the loop counter (attempt)
    sent,               \* send(): the writes this call has made
    acks,               \* send(): what each acknowledgement read found, in order
    connect_attempt,    \* _connect(): the loop counter (attempt)
    refused,            \* _connect(): the attempts the remote refused
    accepted,           \* _connect(): the attempt the remote accepted, or 0
    delays,             \* connect(), _connect(): the time.sleep(3) calls made
    established,        \* connect() returned normally on the current socket
    result,             \* the outcome of the call that completed last
    calls,              \* the number of API calls made on the client
    hdr,                \* the header returned by the last single-message read
    data,               \* the body returned by the last single-message read
    msg_grp,            \* get_multi_message(): the message group, <<>> for None
    need,               \* get_multi_message(): iterations of its loop still to run
    chunk,              \* the most bytes one recv() of the read in progress returns
    script,             \* what the remote sent before the reads began
    value,              \* what the last read of a header property returned or raised
    sockTimeout,        \* the timeout set on the current socket, NoTimeout when blocking
    read_timeout,       \* read(): the timeout argument, NoTimeout for None
    buffer,             \* read(): the bytes accumulated
    unsent,             \* the segments the remote has still to send, each after a gap
    peer,               \* what the remote does once it has sent everything: it
                        \* stays "open" and idle, or its end is "closed"
    recvs,              \* read(): the recv() calls made, counted modulo RecvWrap
    args,               \* report() / report_rm(): the arguments of the call
    kwargs,             \* Run._kwargs: the options the Run was constructed with
    host,               \* Run.host; the host of the legacy STKConnect
    port,               \* Run.port; the port of the legacy STKConnect
    port_delta,         \* Run.port_delta
    run_attempts,       \* Run.run_attempts
    launches,           \* run(): the loop counter (attempts)
    polls,              \* _launch_linux(): the loop counter (attempts)
    polled,             \* _launch_linux(): what get_nowait() gave in the pass in
                        \* progress, None for Empty and outside a pass
    procs,              \* every process launched so far, with its reader thread
    address,            \* the (host, port) of the client Run.connect() built, <<>> if none
    consumed            \* the lines taken off a queue so far, in order

client == <<variant, ack, connect_attempts, send_attempts, timeout, hasQueue>>
runv == <<kwargs, host, port, port_delta, run_attempts, launches, polls, polled, procs,
          address, consumed>>
conf == <<client, args, runv>>
sendv == <<message, attempts, send_attempt, sent, acks>>
connv == <<connect_attempt, refused, accepted, delays>>
idlev == <<value, sockTimeout, read_timeout, buffer, unsent, peer, recvs>>
readv == <<hdr, data, msg_grp, need, chunk, script, idlev>>
vars == <<variant, ack, connect_attempts, send_attempts, timeout, hasQueue, queue, socket,
          sockState, tx, rx, remoteAck, pc, op, message, attempts, send_attempt,
          sent, acks, connect_attempt, refused, accepted, delays, established,
          result, calls, hdr, data, msg_grp, need, chunk, script, value,
          sockTimeout, read_timeout, buffer, unsent, peer, recvs, args, kwargs, host,
          port, port_delta, run_attempts, launches, polls, polled, procs, address,
          consumed>>

----------------------------------------------------------------------------
(* Bounds of the model. *)

MaxConnectAttempts == 3
MaxSendAttempts == 2
MaxCalls == 3
MaxReads == 2
MaxPackets == 3
MaxTimeout == 2
MaxSegments == 2
MaxReports == 1
MaxRunAttempts == 2
MaxLines == 2
RecvWrap == 2

(* Program constants. *)

AckLen == 3
SyncHeaderLen == 40
AsyncHeaderLen == 42
ReadSize == 4096
DefaultTimeout == 1
DefaultHost == "localhost"
DefaultPort == 5001
DefaultPortDelta == 1000
DefaultRunAttempts == 1
DefaultMaxAttempts == 5
NoTimeout == -1
RowPrefixLen == 18
ReportMarker == "AGI421009REPORT_RM      "

----------------------------------------------------------------------------
(* Python's str and int, as far as the client uses them. *)

Min(a, b) == IF a < b THEN a ELSE b
Max(a, b) == IF a > b THEN a ELSE b

(* s[a:b] for 0 <= a. A negative b counts from the end. *)
PySlice(s, a, b) ==
    LET e == IF b < 0 THEN Max(0, Len(s) + b) ELSE Min(b, Len(s))
    IN  IF a + 1 > e THEN "" ELSE SubSeq(s, a + 1, e)

(* The characters str.rstrip() and str.split() take for white
   space, among the code points up to U+00FF: space, \t, \n, \r, \f, the
   vertical tab U+000B, the separators U+001C to U+001F, U+0085 and U+00A0. *)
Whitespace == {" ", "\t", "\n", "\r", "\f", "", "", "", "", "", "", " "}
Digits == {"0", "1", "2", "3", "4", "5", "6", "7", "8", "9"}

DigitVal(c) ==
    CASE c = "0" -> 0 [] c = "1" -> 1 [] c = "2" -> 2 [] c = "3" -> 3
      [] c = "4" -> 4 [] c = "5" -> 5 [] c = "6" -> 6 [] c = "7" -> 7
      [] c = "8" -> 8 [] c = "9" -> 9

RECURSIVE rstrip(_)
rstrip(s) ==
    IF s # "" /\ SubSeq(s, Len(s), Len(s)) \in Whitespace
    THEN rstrip(SubSeq(s, 1, Len(s) - 1))
    ELSE s

(* The text of an int() literal without its sign: digits, with single
   underscores allowed between digits. *)
IsIntBody(u) ==
    /\ u # ""
    /\ \A i \in 1..Len(u) : SubSeq(u, i, i) \in Digits \cup {"_"}
    /\ Head(u) # "_"
    /\ SubSeq(u, Len(u), Len(u)) # "_"
    /\ \A i \in 1..(Len(u) - 1) : SubSeq(u, i, i + 1) # "__"

RECURSIVE IntBodyVal(_, _)
IntBodyVal(u, acc) ==
    IF u = "" THEN acc
    ELSE IF Head(u) = "_" THEN IntBodyVal(Tail(u), acc)
    ELSE IntBodyVal(Tail(u), 10 * acc + DigitVal(Head(u)))

(* int(s): [ok |-> FALSE] stands for ValueError. *)
int_unsigned(u, negative) ==
    IF IsIntBody(u)
    THEN [ok |-> TRUE, val |-> IF negative THEN 0 - IntBodyVal(u, 0) ELSE IntBodyVal(u, 0)]
    ELSE [ok |-> FALSE, val |-> 0]

int_stripped(t) ==
    IF t # "" /\ Head(t) \in {"+", "-"}
    THEN int_unsigned(Tail(t), Head(t) = "-")
    ELSE int_unsigned(t, FALSE)

(* The white space int() skips around a literal: that of str.rstrip()
   without the separators U+001C to U+001F, which int() rejects. *)
IntWhitespace == Whitespace \ {"", "", "", ""}

RECURSIVE int_lstrip(_)
int_lstrip(s) == IF s # "" /\ Head(s) \in IntWhitespace THEN int_lstrip(Tail(s)) ELSE s

RECURSIVE int_rstrip(_)
int_rstrip(s) ==
    IF s # "" /\ SubSeq(s, Len(s), Len(s)) \in IntWhitespace
    THEN int_rstrip(SubSeq(s, 1, Len(s) - 1))
    ELSE s

int(s) == int_stripped(int_lstrip(int_rstrip(s)))

----------------------------------------------------------------------------
(* socket.recv(n) on a blocking socket, s being the bytes pending, c the most
   bytes the transport hands over at a time, pr what the peer does once it
   has sent everything ("open" or "closed"): got are the bytes returned and
   rest the stream afterwards. With nothing pending the receive returns no
   bytes at once when the peer has closed or n is 0; with the peer open it
   waits for bytes that never come (blocks). *)
recv(s, n, c, pr) ==
    [blocks |-> s = "" /\ n > 0 /\ pr = "open",
     got    |-> SubSeq(s, 1, Min(Min(n, c), Len(s))),
     rest   |-> SubSeq(s, Min(Min(n, c), Len(s)) + 1, Len(s))]

----------------------------------------------------------------------------
(* class AsyncHeader: the properties of a header whose raw text is raw.
   A property is a record: err is "none" and val the value, or err names
   the exception the property raises. *)

Value(v) == [err |-> "none", val |-> v]
Raise(e) == [err |-> e, val |-> 0]

(* int(self.raw[a:b]) *)
IntResult(r) == IF r.ok THEN Value(r.val) ELSE Raise("ValueError")

IntField(raw, a, b) == IntResult(int(PySlice(raw, a, b)))

(* self.raw is a str, so self.raw[...].decode() raises AttributeError: a
   slice of a str is a str whatever its bounds. *)
sync(raw) == Raise("AttributeError")
header_length(raw) == Raise("AttributeError")

(* self.raw[i].decode(): the index raises IndexError on a raw of i
   characters or fewer, before decode is looked up. *)
indexed_decode(raw, i) ==
    IF i >= Len(raw) THEN Raise("IndexError") ELSE Raise("AttributeError")

major_version(raw) == indexed_decode(raw, 5)
minor_version(raw) == indexed_decode(raw, 6)

type_length(raw) == IntField(raw, 7, 9)

async_type_of(raw, n) ==
    IF n.err # "none" THEN n ELSE Value(PySlice(PySlice(raw, 9, 24), 0, n.val))

async_type(raw) == async_type_of(raw, type_length(raw))

identifier(raw) == IntField(raw, 24, 30)
total_packets(raw) == IntField(raw, 30, 34)
packet_number(raw) == IntField(raw, 34, 38)
data_length(raw) == IntField(raw, 38, 42)

----------------------------------------------------------------------------
(* The reads of the two variants, on a stream s of pending bytes, a
   transport that hands over at most c bytes per recv() and a peer pr. Each
   is a record: status is "ok", the exception raised, or "hang" when the
   call never ends (a receive that blocks, or a loop that spins); rest is
   the stream the call leaves behind. *)

(* A single-message read that never ends, the header read so far being h. *)
hangs(h, s) == [status |-> "hang", hdr |-> h, data |-> "", rest |-> s]

(* AsyncConnect.get_single_message: the loop
   while len(data) < hdr.data_length: data += recv(pdl - len(data))
   With nothing pending the receive blocks (peer open) or returns no bytes
   every time (peer closed): either way the loop never ends. *)
RECURSIVE recv_body(_, _, _, _, _)
recv_body(s, d, pdl, c, pr) ==
    IF Len(d) >= pdl THEN [status |-> "ok", data |-> d, rest |-> s]
    ELSE IF s = "" THEN [status |-> "hang", data |-> d, rest |-> s]
    ELSE recv_body(recv(s, pdl - Len(d), c, pr).rest,
                   d \o recv(s, pdl - Len(d), c, pr).got, pdl, c, pr)

(* AsyncConnect.get_single_message, once the header msg is read and s1 is
   what follows it: pdl = hdr.data_length, then the body. *)
async_message(msg, body) ==
    [status |-> body.status, hdr |-> msg, data |-> body.data, rest |-> body.rest]

async_body(msg, s1, pdl, c, pr) ==
    IF pdl.err # "none" THEN [status |-> pdl.err, hdr |-> msg, data |-> "", rest |-> s1]
    ELSE IF pdl.val < 0 THEN [status |-> "ValueError", hdr |-> msg, data |-> "", rest |-> s1]
    ELSE LET r == recv(s1, pdl.val, c, pr)
         IN  IF r.blocks THEN hangs(msg, s1)
             ELSE async_message(msg, recv_body(r.rest, r.got, pdl.val, c, pr))

AsyncConnect_get_single_message(s, c, pr) ==
    LET r == recv(s, AsyncHeaderLen, c, pr)
    IN  IF r.blocks THEN hangs("", s)
        ELSE async_body(r.got, r.rest, data_length(r.got), c, pr)

(* AsyncConnect.get_ack, once get_single_message returned m and t is
   hdr.async_type: status "ok" is a normal return, "STKNackError" the NACK;
   got is the async type that decided it. *)
async_ack(m, t) ==
    IF m.status # "ok" THEN [status |-> m.status, got |-> "", rest |-> m.rest]
    ELSE IF t.err # "none" THEN [status |-> t.err, got |-> "", rest |-> m.rest]
    ELSE IF t.val = "ACK" THEN [status |-> "ok", got |-> t.val, rest |-> m.rest]
    ELSE IF t.val = "NACK" THEN [status |-> "STKNackError", got |-> t.val, rest |-> m.rest]
    ELSE [status |-> "ok", got |-> t.val, rest |-> m.rest]

async_ack_of(m) == async_ack(m, async_type(m.hdr))

AsyncConnect_get_ack(s, c, pr) == async_ack_of(AsyncConnect_get_single_message(s, c, pr))

(* Connect.get_ack, once the 3-byte token msg is read and s1 is what follows
   it: a NACK takes one more byte; anything else is logged with up to 2048
   more bytes, received before the log call is made, and sys.exit(1) is
   called. *)
sync_ack_no_status_byte(msg, s1, c, pr) ==
    IF msg = "ACK" THEN [status |-> "ok", got |-> msg, rest |-> s1]
    ELSE IF msg = "NAC" THEN [status |-> "STKNackError", got |-> msg, rest |-> s1]
    ELSE IF recv(s1, 2048, c, pr).blocks THEN [status |-> "hang", got |-> msg, rest |-> s1]
    ELSE [status |-> "SystemExit", got |-> msg, rest |-> recv(s1, 2048, c, pr).rest]

sync_ack(msg, s1, c, pr) ==
    IF msg = "ACK" THEN [status |-> "ok", got |-> msg, rest |-> s1]
    ELSE IF msg = "NAC"
    THEN IF recv(s1, 1, c, pr).blocks THEN [status |-> "hang", got |-> msg, rest |-> s1]
         ELSE [status |-> "STKNackError", got |-> msg \o recv(s1, 1, c, pr).got,
               rest |-> recv(s1, 1, c, pr).rest]
    ELSE IF recv(s1, 2048, c, pr).blocks THEN [status |-> "hang", got |-> msg, rest |-> s1]
    ELSE [status |-> "SystemExit", got |-> msg, rest |-> recv(s1, 2048, c, pr).rest]

Connect_get_ack(s, c, pr) ==
    LET r == recv(s, AckLen, c, pr)
    IN  IF r.blocks THEN [status |-> "hang", got |-> "", rest |-> s]
        ELSE sync_ack(r.got, r.rest, c, pr)

(* str.split() of the 40-byte header: the whitespace-separated words. *)
RECURSIVE split_words(_, _, _)
split_words(s, cur, out) ==
    IF s = "" THEN (IF cur = "" THEN out ELSE Append(out, cur))
    ELSE IF Head(s) \in Whitespace
    THEN split_words(Tail(s), "", IF cur = "" THEN out ELSE Append(out, cur))
    ELSE split_words(Tail(s), cur \o Head(s), out)

(* Connect.get_single_message, once the header is read and s1 is what
   follows it: cmd_name, length = header.rstrip().split(), then one recv. *)
sync_body(header, s1, length, c, pr) ==
    IF ~length.ok \/ length.val < 0
    THEN [status |-> "ValueError", hdr |-> header, data |-> "", rest |-> s1]
    ELSE IF recv(s1, length.val, c, pr).blocks THEN hangs(header, s1)
    ELSE [status |-> "ok", hdr |-> header, data |-> recv(s1, length.val, c, pr).got,
          rest |-> recv(s1, length.val, c, pr).rest]

sync_message(header, s1, words, c, pr) ==
    IF Len(words) # 2
    THEN [status |-> "ValueError", hdr |-> header, data |-> "", rest |-> s1]
    ELSE sync_body(header, s1, int(words[2]), c, pr)

Connect_get_single_message(s, c, pr) ==
    IF recv(s, SyncHeaderLen, c, pr).blocks THEN hangs("", s)
    ELSE sync_message(recv(s, SyncHeaderLen, c, pr).got, recv(s, SyncHeaderLen, c, pr).rest,
                      split_words(rstrip(recv(s, SyncHeaderLen, c, pr).got), "", <<>>), c, pr)

(* The variant's get_ack; the legacy STKConnect reads as AsyncConnect does. *)
get_ack(v, s, c, pr) ==
    IF v = "Connect" THEN Connect_get_ack(s, c, pr) ELSE AsyncConnect_get_ack(s, c, pr)

(* The variant's get_single_message; STKConnect.get_message is the same
   code as AsyncConnect.get_single_message. *)
single_message(v, s, c, pr) ==
    IF v = "Connect" THEN Connect_get_single_message(s, c, pr)
    ELSE AsyncConnect_get_single_message(s, c, pr)

(* The acknowledgement read of send() while the remote has the segments sg
   still to send: a receive that finds nothing pending returns with the next
   segment when it arrives, whatever time that takes on a blocking socket,
   and the call goes on from where it stood. The peer closes, if it does,
   after its last segment. unsent are the segments still to come when the
   call ends. *)
still(sg, pr) == IF sg # <<>> THEN "open" ELSE pr

with_unsent(g, sg) == [status |-> g.status, got |-> g.got, rest |-> g.rest, unsent |-> sg]

(* Connect.get_ack waiting in recv(1) or recv(2048), the token msg read. *)
RECURSIVE sync_ack_fed(_, _, _, _)
sync_ack_fed(msg, s1, sg, pr) ==
    LET g == sync_ack(msg, s1, Len(s1), still(sg, pr))
    IN  IF g.status = "hang" /\ sg # <<>>
        THEN sync_ack_fed(msg, sg[1].bytes, Tail(sg), pr)
        ELSE with_unsent(g, sg)

(* Connect.get_ack, which waits in recv(3) when its token is not there. *)
RECURSIVE Connect_get_ack_fed(_, _, _)
Connect_get_ack_fed(s, sg, pr) ==
    LET g == Connect_get_ack(s, Len(s), still(sg, pr))
    IN  IF g.status # "hang" \/ sg = <<>> THEN with_unsent(g, sg)
        ELSE IF g.got = "" THEN Connect_get_ack_fed(sg[1].bytes, Tail(sg), pr)
        ELSE sync_ack_fed(g.got, sg[1].bytes, Tail(sg), pr)

(* AsyncConnect.get_single_message waiting for the body of header h, d
   being the body so far. *)
RECURSIVE async_body_fed(_, _, _, _, _)
async_body_fed(h, d, s, sg, pr) ==
    LET b == recv_body(s, d, data_length(h).val, Len(s), still(sg, pr))
    IN  IF b.status = "hang" /\ sg # <<>>
        THEN async_body_fed(h, b.data, sg[1].bytes, Tail(sg), pr)
        ELSE [m |-> async_message(h, b), unsent |-> sg]

(* AsyncConnect.get_single_message, which waits in recv(42) when no header
   is there. *)
RECURSIVE async_message_fed(_, _, _)
async_message_fed(s, sg, pr) ==
    LET m == AsyncConnect_get_single_message(s, Len(s), still(sg, pr))
    IN  IF m.status # "hang" \/ sg = <<>> THEN [m |-> m, unsent |-> sg]
        ELSE IF m.hdr = "" THEN async_message_fed(sg[1].bytes, Tail(sg), pr)
        ELSE async_body_fed(m.hdr, m.data, sg[1].bytes, Tail(sg), pr)

AsyncConnect_get_ack_fed(s, sg, pr) ==
    LET r == async_message_fed(s, sg, pr)
    IN  with_unsent(async_ack_of(r.m), r.unsent)

(* The variant's get_ack with segments still to come. *)
get_ack_fed(v, s, sg, pr) ==
    IF v = "Connect" THEN Connect_get_ack_fed(s, sg, pr)
    ELSE AsyncConnect_get_ack_fed(s, sg, pr)

(* get_multi_message: msg_grp = [None] * hdr.total_packets, a slot being <<>>
   for None and <<data>> once filled. *)
allocate(n) == [i \in 1..n |-> <<>>]

(* The position, from 1, of index i in a Python list of n items; 0 when
   the index is out of range. *)
index(n, i) ==
    IF i >= 0 /\ i < n THEN i + 1
    ELSE IF i < 0 /\ i >= -n THEN n + i + 1
    ELSE 0

(* get_multi_message: msg_grp[hdr.packet_number-1] = data *)
store(grp, pn, d) ==
    IF pn.err # "none" THEN [err |-> pn.err, grp |-> grp]
    ELSE IF index(Len(grp), pn.val - 1) = 0 THEN [err |-> "IndexError", grp |-> grp]
    ELSE [err |-> "none", grp |-> [grp EXCEPT ![index(Len(grp), pn.val - 1)] = <<d>>]]

(* get_multi_message: if msg_grp[-1] == '': del msg_grp[-1] *)
drop_last(grp) ==
    IF grp[Len(grp)] = <<"">> THEN SubSeq(grp, 1, Len(grp) - 1) ELSE grp

(* get_multi_message: the loop calls self.get_message(), a method STKConnect
   defines and AsyncConnect does not. *)
has_get_message(v) == v = "STKConnect"

----------------------------------------------------------------------------
(* The remote application, as far as the client can tell: what it answers
   to a connection attempt and to a command. *)

DigitChar == <<"0", "1", "2", "3", "4", "5", "6", "7", "8", "9">>

(* n in decimal, w characters wide, zero-filled. *)
RECURSIVE Dec(_, _)
Dec(n, w) == IF w = 0 THEN "" ELSE Dec(n \div 10, w - 1) \o DigitChar[(n % 10) + 1]

(* s left-justified in w characters. *)
RECURSIVE Pad(_, _)
Pad(s, w) == IF Len(s) >= w THEN s ELSE Pad(s \o " ", w)

(* An async packet: the 42-byte header of the given fields, then the body. *)
AsyncPacket(sy, type, total, num, body) ==
    sy \o "42" \o "1" \o "0" \o Dec(Len(type), 2) \o Pad(type, 15) \o Dec(1, 6)
       \o Dec(total, 4) \o Dec(num, 4) \o Dec(Len(body), 4) \o body

(* What the remote may answer to a command: an ACK, a NACK, or something
   that is neither, in the framing of the variant. *)
Replies(v) ==
    IF v # "Connect"
    THEN {AsyncPacket("AGI", "ACK", 1, 1, ""), AsyncPacket("AGI", "NACK", 1, 1, ""),
          AsyncPacket("AGI", "REPORT_RM", 1, 1, "x")}
    ELSE {"ACK", "NACK", "ERR", "ERROR"}

(* How a socket connect attempt ends. *)
ConnectOutcomes == {"accept", "refused", "error"}

Variants == {"Connect", "AsyncConnect"}

----------------------------------------------------------------------------
(* _AbstractConnect: connect(), _connect(), send(), _send(), close(). *)

AsyncOn == "ConControl / AsyncOn"
AckOff == "ConControl / AckOff"
UserCommand == "Unload / *"

(* The messages a caller passes to send(): a command, and a text of two
   lines. *)
UserMessages == {UserCommand, "Unload / *\nNew / * Scenario s"}

(* _send() writing the message with nothing after it. *)
wire_bare(m) == m

(* _send(): the bytes of one write, (message+'\n').encode(), whatever the
   message contains. *)
wire(m) == m \o "\n"

(* _send() on socket so: the exception of self.socket.send, "none" if the
   bytes are written. None has no send; an unconnected or closed socket
   raises OSError. *)
_send_error(so, st) ==
    IF so = 0 THEN "AttributeError"
    ELSE IF st[so] # "connected" THEN "OSError"
    ELSE "none"

(* _connect_step retrying after any socket error. *)
_connect_step_retry_any(outcome, a, n) ==
    IF a >= n THEN "raise"
    ELSE IF outcome = "accept" THEN "return"
    ELSE "sleep"

(* _connect_step with the budget test off by one (attempt > connect_attempts). *)
_connect_step_late(outcome, a, n) ==
    IF a > n THEN "raise"
    ELSE IF outcome = "accept" THEN "return"
    ELSE IF outcome = "refused" THEN "sleep"
    ELSE "propagate"

(* One pass of the loop of _connect(), after socket.connect() ended with
   outcome at attempt a, n being connect_attempts: the finally clause runs
   on every way out of the try statement. *)
_connect_step(outcome, a, n) ==
    IF a >= n THEN "raise"
    ELSE IF outcome = "accept" THEN "return"
    ELSE IF outcome = "refused" THEN "sleep"
    ELSE "propagate"

(* connect(): the time.sleep(3) before _connect(), which the legacy
   STKConnect.connect() does not have. *)
startup_sleeps(v) == IF v = "STKConnect" THEN 0 ELSE 1

(* handshake without the test of self.ack. *)
handshake_always_ackoff(v, ak, done) ==
    IF done = "" /\ v # "Connect" THEN AsyncOn
    ELSE IF v # "STKConnect" /\ done # AckOff THEN AckOff
    ELSE ""

(* connect(): the command sent after `done` ("" right after _connect()), or
   "" when the handshake is over. AsyncConnect sends AsyncOn, then either
   class sends AckOff unless self.ack is True; the legacy STKConnect sends
   AsyncOn and nothing else, whatever self.ack is. *)
handshake(v, ak, done) ==
    IF done = "" /\ v # "Connect" THEN AsyncOn
    ELSE IF v # "STKConnect" /\ done # AckOff /\ ak # TRUE THEN AckOff
    ELSE ""

(* send_step retrying after any failed acknowledgement read. *)
send_step_retry_any(st, a, n) ==
    IF st = "ok" THEN "return"
    ELSE IF a >= n THEN "raise"
    ELSE "retry"

(* send_step with the budget test off by one (attempt > attempts). *)
send_step_late(st, a, n) ==
    IF st = "ok" THEN "return"
    ELSE IF st = "STKNackError" THEN (IF a > n THEN "raise" ELSE "retry")
    ELSE "propagate"

(* One pass of the loop of send(), whose write and acknowledgement read
   ended with status st at attempt a of n. *)
send_step(st, a, n) ==
    IF st = "ok" THEN "return"
    ELSE IF st = "STKNackError" THEN (IF a >= n THEN "raise" ELSE "retry")
    ELSE "propagate"

(* send(): the test 'if self.ack' passing whatever self.ack is. *)
wants_ack_always(ak) == TRUE

(* send(): the test 'if self.ack', made at every attempt on the attribute
   as it is then. *)
wants_ack(ak) == ak

(* send(message, attempts=None): the budget, given being the slot of the
   argument. *)
send_budget(given, default) == IF given = <<>> THEN default ELSE given[1]

(* Run.send(message, attempts=1): the argument it passes to the client's
   send(). *)
Run_send_budget(given) == IF given = <<>> THEN <<1>> ELSE given

(* STKNackError.__str__ of an error made with the string m as its message:
   'if self.message' is false for the empty string. *)
STKNackError_str(m) ==
    IF m # "" THEN "STKNackError: " \o m ELSE "STKNackError has been raised"

(* STKNackError.__str__ of an error whose message is the exception e, of
   text str_e: an exception object is true whatever its text. *)
STKNackError_str_of(str_e) == "STKNackError: " \o str_e

(* get_ack() naming no command in its error. *)
nack_text_bare(v, m) == "NACK Received"

(* get_ack(message) of variant v on a NACK: the message of the STKNackError
   it raises. Connect strips the end of the command, AsyncConnect does not. *)
nack_text(v, m) ==
    "NACK Received: stk.send(\"" \o (IF v = "Connect" THEN rstrip(m) ELSE m) \o "\")"

(* send(): the text of the STKNackError it raises once the budget is spent,
   an STKNackError whose message is the error get_ack() raised. *)
send_error_text(v, m) == STKNackError_str_of(STKNackError_str(nack_text(v, m)))

(* Run.send, STKLaunch.send: the outcome for the caller when the client's
   send() ended with r.
   An STKNackError is caught and _dump_stk_errors() drains self._queue. *)
Run_send_outcome(r, hq) ==
    IF r = "STKNackError" THEN (IF hq THEN "ok" ELSE "AttributeError") ELSE r

(* The report calls made through a facade: Run of stk/stk.py and STKLaunch
   of the legacy module. *)
FacadeReports == {"Run.report", "Run.report_rm", "STKLaunch.report"}

(* The calls that, once send() has returned, read the socket and make rows
   of the buffer. STKConnect.report is the code of AsyncConnect.report_rm. *)
reads_rows(o) == o \in {"report_rm", "Run.report_rm", "STKConnect.report", "STKLaunch.report"}

(* Run.report, Run.report_rm, STKLaunch.report: the outcome for the caller
   when the client's call ended with r. An STKNackError is caught and logged
   and the call returns None, whether there is a _queue or not; anything
   else propagates. *)
Run_report_outcome(r) == IF r = "STKNackError" THEN "ok" ELSE r

(* send() called through a facade: Run.send of stk/stk.py and STKLaunch.send
   of the legacy module, which is the same code. *)
FacadeSends == {"Run.send", "STKLaunch.send"}

(* The outcome of the API call o whose send() ended with r. *)
outcome_of(o, r, hq) ==
    IF o \in FacadeSends THEN Run_send_outcome(r, hq)
    ELSE IF o \in FacadeReports THEN Run_report_outcome(r)
    ELSE r

(* _dump_stk_errors() is called: Run.send and STKLaunch.send call it on an
   STKNackError, the report calls of a facade do if hasattr(self, '_queue'). *)
dumps(o, r, hq) ==
    /\ r = "STKNackError"
    /\ hq
    /\ o \in FacadeSends \cup FacadeReports

(* None, as the value of an optional argument or option; one that is given
   is <<its value>>. *)
None == <<>>

(* No report() or report_rm() has been called. *)
NoArgs ==
    [form |-> "none", ObjPath |-> "", Style |-> "", FilePath |-> None,
     TimePeriod |-> None, TimeStep |-> None, AccessObjectPath |-> None,
     AdditionalData |-> None, Summary |-> None, AllLines |-> None]

(* s.find(sep): the offset of the first sep in s, counted from 0, or -1. *)
find(s, sep) ==
    LET at == {k \in 1..(Len(s) - Len(sep) + 1) : SubSeq(s, k, k + Len(sep) - 1) = sep}
    IN  IF at = {} THEN -1 ELSE (CHOOSE k \in at : \A j \in at : k <= j) - 1

(* s.split(sep) *)
RECURSIVE split(_, _)
split(s, sep) ==
    IF find(s, sep) < 0 THEN <<s>>
    ELSE <<SubSeq(s, 1, find(s, sep))>>
            \o split(SubSeq(s, find(s, sep) + Len(sep) + 1, Len(s)), sep)

(* f' <name> {value}' if the argument is not None: one optional clause,
   its value between double quotes or bare. *)
clause(name, arg, quoted) ==
    IF arg = None THEN ""
    ELSE IF quoted THEN " " \o name \o " \"" \o arg[1] \o "\""
    ELSE " " \o name \o " " \o arg[1]

(* The optional clauses, appended in the order of the if statements. *)
optional_clauses(a) ==
    clause("AccessObject", a.AccessObjectPath, FALSE)
        \o clause("TimePeriod", a.TimePeriod, FALSE)
        \o clause("TimeStep", a.TimeStep, FALSE)
        \o clause("AdditionalData", a.AdditionalData, TRUE)
        \o clause("Summary", a.Summary, FALSE)
        \o clause("AllLines", a.AllLines, FALSE)

(* Connect.report: the command built from the parameters a. *)
Connect_report(a) ==
    "ReportCreate */" \o a.ObjPath \o " Style \"" \o a.Style
        \o "\" Type \"Export\" File \"" \o a.FilePath[1] \o "\"" \o optional_clauses(a)

(* AsyncConnect.report: it has no FilePath parameter and builds no File
   clause. *)
AsyncConnect_report(a) ==
    "ReportCreate */" \o a.ObjPath \o " Style \"" \o a.Style \o "\"" \o optional_clauses(a)

(* Connect.report_rm and AsyncConnect.report_rm build the same command. *)
report_rm_message(a) ==
    "Report_RM */" \o a.ObjPath \o " Style \"" \o a.Style \o "\"" \o optional_clauses(a)

(* The parameters a call binds, or the TypeError of the call. The caller
   gives ObjPath and Style first, the destination file of report() third
   (form "positional") or as FilePath=... (form "keyword"), and the optional
   arguments by name. The third parameter of AsyncConnect.report is
   TimePeriod. *)
bind(v, o, a) ==
    IF o = "report" /\ v = "AsyncConnect"
    THEN IF a.form = "keyword" \/ a.TimePeriod # None THEN Raise("TypeError")
         ELSE Value([a EXCEPT !.TimePeriod = a.FilePath, !.FilePath = None])
    ELSE Value(a)

(* The command report() or report_rm() of variant v sends for the
   parameters a. *)
report_message(v, o, a) ==
    IF o = "report_rm" THEN report_rm_message(a)
    ELSE IF v = "Connect" THEN Connect_report(a)
    ELSE AsyncConnect_report(a)

(* Connect.report_rm: what it returns for the buffer read: [] whether the
   buffer is empty or not. *)
Connect_report_rm_rows(b) == <<>>

(* AsyncConnect.report_rm returning every segment of the split. *)
AsyncConnect_report_rm_keep_first(b) ==
    IF Len(b) = 0 THEN <<>>
    ELSE [i \in 1..Len(split(b, ReportMarker)) |->
              PySlice(split(b, ReportMarker)[i], RowPrefixLen, Len(b))]

(* AsyncConnect.report_rm: [x[18:] for x in buffer.split(marker)[1:]], and []
   for an empty buffer. *)
AsyncConnect_report_rm_rows(b) ==
    IF Len(b) = 0 THEN <<>>
    ELSE [i \in 1..(Len(split(b, ReportMarker)) - 1) |->
              PySlice(split(b, ReportMarker)[i + 1], RowPrefixLen, Len(b))]

report_rm_rows(v, b) ==
    IF v = "Connect" THEN Connect_report_rm_rows(b) ELSE AsyncConnect_report_rm_rows(b)

(* No option was given to Run(). *)
NoKwargs == [host |-> None, port |-> None, port_delta |-> None, run_attempts |-> None,
             connect_attempts |-> None, async_messaging |-> None]

(* A Run built with no option, which has launched nothing. *)
NoRun ==
    /\ kwargs = NoKwargs
    /\ host = DefaultHost
    /\ port = DefaultPort
    /\ port_delta = DefaultPortDelta
    /\ run_attempts = DefaultRunAttempts
    /\ launches = 0
    /\ polls = 0
    /\ polled = None
    /\ procs = <<>>
    /\ address = <<>>
    /\ consumed = <<>>

(* No header property has been read, no read() and no report call made; the
   socket is blocking and the remote has nothing more to send. *)
NothingRead ==
    /\ value = Value(0)
    /\ sockTimeout = NoTimeout
    /\ read_timeout = NoTimeout
    /\ buffer = ""
    /\ unsent = <<>>
    /\ recvs = 0
    /\ args = NoArgs
    /\ NoRun

(* The same, and the remote keeps the connection open. *)
IdleInit == NothingRead /\ peer = "open"

(* A client just constructed: no socket, no call made. *)
NewClient ==
    /\ ack \in BOOLEAN
    /\ connect_attempts \in 0..MaxConnectAttempts
    /\ send_attempts \in 1..MaxSendAttempts
    /\ hasQueue \in BOOLEAN
    /\ queue = IF hasQueue THEN <<"STK/CON: Accepting connection requests">> ELSE <<>>
    /\ socket = 0
    /\ sockState = <<>>
    /\ tx = <<>>
    /\ rx = ""
    /\ remoteAck = TRUE
    /\ pc = "idle"
    /\ op = "none"
    /\ message = ""
    /\ attempts = 0
    /\ send_attempt = 0
    /\ sent = 0
    /\ acks = <<>>
    /\ connect_attempt = 0
    /\ refused = 0
    /\ accepted = 0
    /\ delays = 0
    /\ established = FALSE
    /\ result = "none"
    /\ calls = 0
    /\ hdr = ""
    /\ data = ""
    /\ msg_grp = <<>>
    /\ need = 0
    /\ chunk = 0
    /\ script = [kind |-> "none"]
    /\ timeout = DefaultTimeout
    /\ IdleInit

Init == variant \in Variants /\ NewClient

(* send() begins: the budget and attempt = 0. *)
StartSend(m, n) ==
    /\ pc' = "send"
    /\ message' = m
    /\ attempts' = n
    /\ send_attempt' = 0
    /\ sent' = 0
    /\ acks' = <<>>
    /\ result' = "none"

(* The sockets once self.socket is bound to a new socket object: the object
   replaced, which nothing else refers to, is finalised at once and its
   connection closed; the new one is created, not connected. *)
replace_socket(so, st) ==
    Append(IF so = 0 THEN st ELSE [st EXCEPT ![so] = "closed"], "created")

(* The calls that are a client's connect(): connect() itself and the
   connect() of the legacy facade STKLaunch, which builds its STKConnect
   first. *)
Connects == {"connect", "STKLaunch.connect"}

(* connect() of a client of class v, called as o: a new socket object,
   blocking, replaces self.socket. *)
connect_as(o, v) ==
    /\ pc = "idle"
    /\ calls < MaxCalls
    /\ sockState' = replace_socket(socket, sockState)
    /\ socket' = Len(sockState) + 1
    /\ sockTimeout' = NoTimeout
    /\ tx' = <<>>
    /\ rx' = ""
    /\ remoteAck' = TRUE
    /\ pc' = "_connect"
    /\ op' = o
    /\ connect_attempt' = 0
    /\ refused' = 0
    /\ accepted' = 0
    /\ delays' = startup_sleeps(v)
    /\ established' = FALSE
    /\ result' = "none"
    /\ calls' = calls + 1
    /\ UNCHANGED <<queue, sendv, hdr, data, msg_grp, need, chunk, script, value,
                   read_timeout, buffer, unsent, peer, recvs>>

(* connect() of the client there is. *)
connect_call == connect_as("connect", variant)

(* connect() on the client there is. *)
connect == connect_call /\ UNCHANGED conf

(* _connect(): one pass of its loop, and what connect() does when it
   returns. *)
_connect ==
    /\ pc = "_connect"
    /\ \E outcome \in ConnectOutcomes :
        LET a    == connect_attempt + 1
            step == _connect_step(outcome, a, connect_attempts)
            h    == handshake(variant, ack, "")
        IN  /\ connect_attempt' = a
            /\ refused' = IF outcome = "refused" THEN refused + 1 ELSE refused
            /\ accepted' = IF outcome = "accept" THEN a ELSE accepted
            /\ sockState' = IF outcome = "accept"
                            THEN [sockState EXCEPT ![socket] = "connected"]
                            ELSE sockState
            /\ delays' = IF step = "sleep" THEN delays + 1 ELSE delays
            /\ established' = (step = "return" /\ h = "")
            /\ IF step = "return" /\ h # ""
               THEN StartSend(h, send_attempts)
               ELSE /\ pc' = IF step = "sleep" THEN "_connect" ELSE "idle"
                    /\ result' = CASE step = "return" -> "ok"
                                   [] step = "raise" -> "STKConnectError"
                                   [] step = "propagate" -> "OSError"
                                   [] OTHER -> "none"
                    /\ UNCHANGED sendv
    /\ UNCHANGED <<conf, queue, socket, tx, rx, remoteAck, op, calls, readv>>

(* send(message, attempts) is called on the client; n = 0 stands for
   attempts=None. *)
send ==
    /\ pc = "idle"
    /\ calls < MaxCalls
    /\ \E m \in UserMessages, n \in {0} \cup 1..MaxSendAttempts :
         StartSend(m, IF n = 0 THEN send_attempts ELSE n)
    /\ op' = "send"
    /\ calls' = calls + 1
    /\ UNCHANGED <<conf, queue, socket, sockState, tx, rx, remoteAck, connv,
                   established, readv>>

(* Run.send(message, attempts=1) passes its budget to the client's send(). *)
Run_send ==
    /\ pc = "idle"
    /\ calls < MaxCalls
    /\ \E m \in UserMessages, n \in 1..MaxSendAttempts : StartSend(m, n)
    /\ op' = "Run.send"
    /\ calls' = calls + 1
    /\ UNCHANGED <<conf, queue, socket, sockState, tx, rx, remoteAck, connv,
                   established, readv>>

(* send(): the way out of one pass of its loop that ended with status st
   at attempt a: again, on to the next handshake command, or out of the
   call with outcome r. *)
send_out(a, st, step, sent1, acks1, h) ==
    IF step = "retry"
    THEN /\ pc' = "send"
         /\ send_attempt' = a
         /\ sent' = sent1
         /\ acks' = acks1
         /\ UNCHANGED <<message, attempts, result, queue, established>>
    ELSE IF op \in Connects /\ step = "return" /\ h # ""
    THEN /\ StartSend(h, send_attempts)
         /\ UNCHANGED <<queue, established>>
    ELSE /\ pc' = IF st = "hang" THEN "hung"
                  ELSE IF reads_rows(op) /\ step = "return" THEN "report_rm"
                  ELSE IF dumps(op, st, hasQueue) THEN "dump"
                  ELSE "idle"
         /\ established' = IF op \in Connects THEN step = "return" ELSE established
         /\ result' = IF (reads_rows(op) /\ step = "return") \/ dumps(op, st, hasQueue)
                      THEN "none"
                      ELSE outcome_of(op, st, hasQueue)
         /\ send_attempt' = a
         /\ sent' = sent1
         /\ acks' = acks1
         /\ UNCHANGED <<message, attempts, queue>>

(* send(): a pass whose write failed with werr. *)
send_failed(a, werr) ==
    /\ UNCHANGED <<tx, rx, remoteAck, unsent>>
    /\ send_out(a, werr, send_step(werr, a, attempts), sent, acks, "")

(* send(): a pass that wrote the command; rx1 is the inbound stream once the
   remote has answered, g the acknowledgement read on it. *)
send_written(a, rx1, g) ==
    /\ tx' = Append(tx, wire(message))
    /\ remoteAck' = IF message = AckOff THEN FALSE ELSE remoteAck
    /\ IF wants_ack(ack)
       THEN /\ rx' = g.rest
            /\ unsent' = g.unsent
            /\ send_out(a, g.status, send_step(g.status, a, attempts), sent + 1,
                        Append(acks, [status |-> g.status, got |-> g.got]),
                        handshake(variant, ack, message))
       ELSE /\ rx' = rx1
            /\ unsent' = unsent
            /\ send_out(a, "ok", send_step("ok", a, attempts), sent + 1, acks,
                        handshake(variant, ack, message))

(* What the remote adds to the inbound stream when it receives a command:
   an answer while its acknowledgement mode is on, nothing for AckOff. *)
remote_answer(reply) == IF remoteAck /\ message # AckOff THEN rx \o reply ELSE rx

(* send(): one pass of its loop: the write, the remote's answer, the
   acknowledgement read, and the way out of the call. The transport hands
   over whatever is pending, up to the size asked for; a receive that finds
   nothing pending takes the next segment the remote has still to send. *)
send_pass ==
    /\ pc = "send"
    /\ IF _send_error(socket, sockState) # "none"
       THEN send_failed(send_attempt + 1, _send_error(socket, sockState))
       ELSE \E reply \in Replies(variant) :
               LET rx1 == remote_answer(reply)
                   g   == get_ack_fed(variant, rx1, unsent, peer)
               IN  send_written(send_attempt + 1, rx1, g)
    /\ UNCHANGED <<conf, socket, sockState, op, calls, connv, hdr, data, msg_grp, need,
                   chunk, script, value, sockTimeout, read_timeout, buffer, peer, recvs>>

(* close() without its try statement: None has no close(). *)
close_unguarded(so) == IF so = 0 THEN "AttributeError" ELSE "ok"

(* close(): its outcome on socket so. Whatever self.socket.close() raises,
   the AttributeError of None included, is caught and dropped. *)
close_result(so) == "ok"

(* close(): the sockets once self.socket.close() has run. *)
close_socket(so, st) == IF so = 0 THEN st ELSE [st EXCEPT ![so] = "closed"]

(* close(), called as o. *)
do_close(o) ==
    /\ pc = "idle"
    /\ calls < MaxCalls
    /\ sockState' = close_socket(socket, sockState)
    /\ op' = o
    /\ result' = close_result(socket)
    /\ calls' = calls + 1
    /\ UNCHANGED <<conf, queue, socket, tx, rx, remoteAck, pc, sendv, connv,
                   established, readv>>

close == do_close("close")

(* disconnect(): an alias of close(). *)
disconnect == do_close("disconnect")

(* Queue.get_nowait(): the item taken, None for Empty, and the queue
   afterwards. *)
get_nowait(q) ==
    IF q = <<>> THEN [got |-> None, rest |-> q] ELSE [got |-> <<q[1]>>, rest |-> Tail(q)]

(* _dump_stk_errors(): one pass of its loop: a line is taken and logged, or
   the queue is empty and it returns, and with it the call of the facade
   that caught the STKNackError. g is what get_nowait() gave. *)
dump(g) ==
    /\ queue' = g.rest
    /\ consumed' = IF g.got = None THEN consumed
                   ELSE Append(consumed, [item |-> g.got[1], by |-> "dump"])
    /\ pc' = IF g.got = None THEN "idle" ELSE "dump"
    /\ result' = IF g.got = None THEN outcome_of(op, "STKNackError", hasQueue) ELSE "none"

_dump_stk_errors ==
    /\ pc = "dump"
    /\ dump(get_nowait(queue))
    /\ UNCHANGED <<client, args, kwargs, host, port, port_delta, run_attempts, launches,
                   polls, polled, procs, address, socket, sockState, tx, rx, remoteAck, op,
                   calls, sendv, connv, established, readv>>

Next ==
    \/ connect
    \/ _connect
    \/ send
    \/ Run_send
    \/ send_pass
    \/ _dump_stk_errors
    \/ close
    \/ disconnect

Spec == Init /\ [][Next]_vars

----------------------------------------------------------------------------
(* A session of a client whose calls give no attempts argument and whose
   ack attribute the caller may assign to once connect() has returned. *)

(* The commands of the session: one of them ends with a space. *)
SessionMessages == {UserCommand, "Unload / * "}

(* A client that can connect at its first attempt. *)
InitSession == Init /\ connect_attempts = 2

(* send(message) *)
send_default ==
    /\ pc = "idle"
    /\ calls < MaxCalls
    /\ \E m \in SessionMessages : StartSend(m, send_budget(None, send_attempts))
    /\ op' = "send"
    /\ calls' = calls + 1
    /\ UNCHANGED <<conf, queue, socket, sockState, tx, rx, remoteAck, connv,
                   established, readv>>

(* Run.send(message) *)
Run_send_default ==
    /\ pc = "idle"
    /\ calls < MaxCalls
    /\ \E m \in SessionMessages :
         StartSend(m, send_budget(Run_send_budget(None), send_attempts))
    /\ op' = "Run.send"
    /\ calls' = calls + 1
    /\ UNCHANGED <<conf, queue, socket, sockState, tx, rx, remoteAck, connv,
                   established, readv>>

(* The caller assigns to the ack attribute of a client whose connect() has
   returned. *)
set_ack ==
    /\ pc = "idle"
    /\ established
    /\ ack' = ~ack
    /\ UNCHANGED <<variant, connect_attempts, send_attempts, timeout, hasQueue, args,
                   runv, queue, socket, sockState, tx, rx, remoteAck, pc, op, result,
                   calls, sendv, connv, established, readv>>

NextSession ==
    \/ connect
    \/ _connect
    \/ send_default
    \/ Run_send_default
    \/ send_pass
    \/ _dump_stk_errors
    \/ set_ack

SpecSession == InitSession /\ [][NextSession]_vars

----------------------------------------------------------------------------
(* The reads of a connected client: get_ack(), get_single_message() and
   get_multi_message() of AsyncConnect and Connect, get_message() and
   get_messages() of the legacy STKConnect. *)

ReadVariants == {"Connect", "AsyncConnect", "STKConnect"}

(* The most bytes one recv() returns: the transport may cut a token or a
   header short, or hand over everything asked for. *)
ChunkSizes == {2, 3, 20, 40, 4096}

(* The packet numbers 1..n in every order of arrival. *)
Orders(n) == {f \in [1..n -> 1..n] : \A i, j \in 1..n : f[i] = f[j] => i = j}

(* The payload of packet p: empty, or a text that names the packet. *)
Payloads(n) == {[p \in 1..n |-> IF e[p] THEN "" ELSE "p" \o DigitChar[p + 1]] :
                    e \in [1..n -> BOOLEAN]}

(* The bytes of a group of n packets arriving in order f. *)
RECURSIVE GroupBytes(_, _, _, _)
GroupBytes(n, f, pl, i) ==
    IF i > n THEN ""
    ELSE AsyncPacket("AGI", "REPORT_RM", n, f[i], pl[f[i]]) \o GroupBytes(n, f, pl, i + 1)

(* A header of the synchronous framing: "<name> <length>" in 40 bytes. *)
SyncPacket(name, body) == Pad(name \o " " \o Dec(Len(body), 1), SyncHeaderLen) \o body

(* A list of the synchronous framing: a message whose data is the count n,
   then n messages, the i-th with a body that names it. *)
RECURSIVE SyncRows(_, _)
SyncRows(i, n) ==
    IF i > n THEN "" ELSE SyncPacket("Row", "r" \o DigitChar[i + 1]) \o SyncRows(i + 1, n)

SyncList(n) == SyncPacket("GetReport", DigitChar[n + 1]) \o SyncRows(1, n)

(* A 42-byte header with one field overwritten: the text t at offset a. *)
Overwrite(raw, a, t) == SubSeq(raw, 1, a) \o t \o SubSeq(raw, a + Len(t) + 1, Len(raw))

(* The groups of n packets: every order of arrival, every choice of empty
   payloads. *)
Groups(n) ==
    {[kind |-> "group", bytes |-> GroupBytes(n, f, pl, 1), total |-> n,
      order |-> f, payloads |-> pl] : f \in Orders(n), pl \in Payloads(n)}

(* What the remote may have sent: an acknowledgement and what it sent next,
   one message, well formed or not, or a group of packets. *)
SyncScripts ==
    {[kind |-> "ack", token |-> b, next |-> n, bytes |-> b \o n] :
        b \in {"ACK", "NACK", "ERR"}, n \in {"", "ACK", "NACK"}}
    \cup {[kind |-> "message", bytes |-> SyncPacket("GetReport", "hello"), length |-> 5]}
    \cup {[kind |-> "list", bytes |-> SyncList(n) \o t, count |-> n, next |-> t] :
            n \in 0..MaxPackets, t \in {"", "ACK"}}

AsyncScripts ==
    {[kind |-> "ack", type |-> ty, body |-> bd, next |-> n,
      bytes |-> AsyncPacket("AGI", ty, 1, 1, bd) \o n] :
        ty \in {"ACK", "NACK", "REPORT_RM"}, bd \in {"", "ok"},
        n \in {"", AsyncPacket("AGI", "ACK", 1, 1, "")}}
    \cup {[kind |-> "message", bytes |-> AsyncPacket(sy, "REPORT_RM", 1, 1, "hello"),
           length |-> 5] : sy \in {"AGI", "XXX"}}
    \cup {[kind |-> "message",
           bytes |-> Overwrite(AsyncPacket("AGI", "REPORT_RM", 1, 1, "hello"), a, "x"),
           length |-> 5] : a \in {4, 8, 29, 33, 37, 41}}
    \cup UNION {Groups(n) : n \in 1..MaxPackets}

Scripts(v) == IF v = "Connect" THEN SyncScripts ELSE AsyncScripts

(* A client whose connect() returned, and the bytes the remote has sent
   before it goes silent or closes the connection. *)
InitRead ==
    /\ variant \in ReadVariants
    /\ ack = TRUE
    /\ connect_attempts = 5
    /\ send_attempts = 1
    /\ hasQueue = FALSE
    /\ queue = <<>>
    /\ socket = 1
    /\ sockState = <<"connected">>
    /\ tx = IF variant = "Connect" THEN <<>> ELSE <<wire(AsyncOn)>>
    /\ script \in Scripts(variant)
    /\ rx = script.bytes
    /\ remoteAck = TRUE
    /\ pc = "idle"
    /\ op = "connect"
    /\ message = ""
    /\ attempts = 0
    /\ send_attempt = 0
    /\ sent = 0
    /\ acks = <<>>
    /\ connect_attempt = 1
    /\ refused = 0
    /\ accepted = 1
    /\ delays = startup_sleeps(variant)
    /\ established = TRUE
    /\ result = "ok"
    /\ calls = 0
    /\ hdr = ""
    /\ data = ""
    /\ msg_grp = <<>>
    /\ need = 0
    /\ chunk = 0
    /\ timeout = DefaultTimeout
    /\ NothingRead
    /\ peer \in {"open", "closed"}

(* Where a call that ended with status st leaves the client. *)
pc_after(st) == IF st = "hang" THEN "hung" ELSE "idle"

(* What a read leaves behind. *)
read_state(rx1, h, d, grp, k, p, r) ==
    /\ rx' = rx1
    /\ hdr' = h
    /\ data' = d
    /\ msg_grp' = grp
    /\ need' = k
    /\ pc' = p
    /\ result' = r

(* A read call begins. *)
StartRead(o, c) ==
    /\ pc = "idle"
    /\ calls < MaxReads
    /\ op' = o
    /\ calls' = calls + 1
    /\ chunk' = c
    /\ UNCHANGED <<conf, queue, socket, sockState, tx, remoteAck, sendv, connv,
                   established, script, idlev>>

(* get_ack(message), called on the pending bytes. *)
ack_read(g) == read_state(g.rest, g.got, "", <<>>, 0, pc_after(g.status), g.status)

call_get_ack ==
    \E c \in ChunkSizes :
        /\ StartRead("get_ack", c)
        /\ ack_read(get_ack(variant, rx, c, peer))

(* get_single_message() (get_message() of STKConnect). *)
message_read(m) == read_state(m.rest, m.hdr, m.data, <<>>, 0, pc_after(m.status), m.status)

get_single_message ==
    \E c \in ChunkSizes :
        /\ StartRead("get_single_message", c)
        /\ message_read(single_message(variant, rx, c, peer))

(* get_multi_message(): a packet was read and stored with outcome st, and k
   packets are still to come: the loop goes on, or the call ends. *)
multi_stored(m, st, k) ==
    IF st.err # "none"
    THEN read_state(m.rest, m.hdr, m.data, st.grp, k, "idle", st.err)
    ELSE IF k = 0
    THEN read_state(m.rest, m.hdr, m.data, drop_last(st.grp), 0, "idle", "ok")
    ELSE read_state(m.rest, m.hdr, m.data, st.grp, k, "get_multi_message", "none")

(* get_multi_message(): the first packet m, whose total_packets is tot. *)
multi_first(m, tot) ==
    IF m.status # "ok"
    THEN read_state(m.rest, m.hdr, m.data, <<>>, 0, pc_after(m.status), m.status)
    ELSE IF tot.err # "none"
    THEN read_state(m.rest, m.hdr, m.data, <<>>, 0, "idle", tot.err)
    ELSE multi_stored(m, store(allocate(tot.val), packet_number(m.hdr), m.data),
                      Max(tot.val - 1, 0))

multi_begin(m) == multi_first(m, total_packets(m.hdr))

(* Connect.get_multi_message(): a message was read and appended, and k
   messages are still to come: the loop goes on, or the list is returned. *)
sync_multi_stored(m, grp, k) ==
    IF k = 0 THEN read_state(m.rest, m.hdr, m.data, grp, 0, "idle", "ok")
    ELSE read_state(m.rest, m.hdr, m.data, grp, k, "get_multi_message", "none")

(* Connect.get_multi_message(): the first message m, whose data is the
   number of messages that follow: range(int(data)) is empty for a count
   below 1. *)
sync_multi_first(m, count) ==
    IF m.status # "ok"
    THEN read_state(m.rest, m.hdr, m.data, <<>>, 0, pc_after(m.status), m.status)
    ELSE IF ~count.ok
    THEN read_state(m.rest, m.hdr, m.data, <<>>, 0, "idle", "ValueError")
    ELSE sync_multi_stored(m, <<>>, Max(count.val, 0))

sync_multi_begin(m) == sync_multi_first(m, int(m.data))

(* Connect.get_multi_message(): a later message m is appended to the list
   as the pair (header, data). *)
sync_multi_next(m) ==
    IF m.status # "ok"
    THEN read_state(m.rest, m.hdr, m.data, msg_grp, need, pc_after(m.status), m.status)
    ELSE sync_multi_stored(m, Append(msg_grp, <<m.hdr, m.data>>), need - 1)

get_multi_message ==
    \E c \in ChunkSizes :
        /\ StartRead("get_multi_message", c)
        /\ IF variant = "Connect"
           THEN sync_multi_begin(Connect_get_single_message(rx, c, peer))
           ELSE multi_begin(AsyncConnect_get_single_message(rx, c, peer))

(* get_multi_message(): a later packet m. *)
multi_next(m) ==
    IF m.status # "ok"
    THEN read_state(m.rest, m.hdr, m.data, msg_grp, need, pc_after(m.status), m.status)
    ELSE multi_stored(m, store(msg_grp, packet_number(m.hdr), m.data), need - 1)

(* get_multi_message(): one pass of its loop, hdr, data = self.get_message() *)
get_multi_message_pass ==
    /\ pc = "get_multi_message"
    /\ IF variant = "Connect"
       THEN sync_multi_next(Connect_get_single_message(rx, chunk, peer))
       ELSE IF has_get_message(variant)
       THEN multi_next(AsyncConnect_get_single_message(rx, chunk, peer))
       ELSE read_state(rx, hdr, data, msg_grp, need, "idle", "AttributeError")
    /\ UNCHANGED <<conf, queue, socket, sockState, tx, remoteAck, op, calls, sendv,
                   connv, established, chunk, script, idlev>>

NextRead ==
    \/ call_get_ack
    \/ get_single_message
    \/ get_multi_message
    \/ get_multi_message_pass

SpecRead == InitRead /\ [][NextRead]_vars

----------------------------------------------------------------------------
(* AsyncHeader on its own: an object built from a 42-character header, and
   the reads of its properties. *)

(* The 42 characters of a header whose fields have the values of f. *)
HeaderBytes(f) ==
    f.sync \o Dec(f.header_length, 2) \o Dec(f.major_version, 1)
       \o Dec(f.minor_version, 1) \o Dec(f.type_length, 2) \o Pad(f.async_type, 15)
       \o Dec(f.identifier, 6) \o Dec(f.total_packets, 4) \o Dec(f.packet_number, 4)
       \o Dec(f.data_length, 4)

(* The field values a header is built from. *)
HeaderFields ==
    {[kind |-> "header", sync |-> "AGI", header_length |-> AsyncHeaderLen,
      major_version |-> ma, minor_version |-> mi, type_length |-> Len(ty),
      async_type |-> ty, identifier |-> id, total_packets |-> tot,
      packet_number |-> num, data_length |-> dl] :
        ma \in 0..1, mi \in 0..1, ty \in {"ACK", "NACK", "REPORT_RM"},
        id \in {1, 123456}, tot \in 1..MaxPackets, num \in 1..MaxPackets,
        dl \in {0, 5, 1234}}

(* The ten field properties of AsyncHeader. *)
Properties ==
    {"sync", "header_length", "major_version", "minor_version", "type_length",
     "async_type", "identifier", "total_packets", "packet_number", "data_length"}

(* hdr.<p>: the value the property returns, or the exception it raises. *)
property(raw, p) ==
    CASE p = "sync" -> sync(raw)
      [] p = "header_length" -> header_length(raw)
      [] p = "major_version" -> major_version(raw)
      [] p = "minor_version" -> minor_version(raw)
      [] p = "type_length" -> type_length(raw)
      [] p = "async_type" -> async_type(raw)
      [] p = "identifier" -> identifier(raw)
      [] p = "total_packets" -> total_packets(raw)
      [] p = "packet_number" -> packet_number(raw)
      [] p = "data_length" -> data_length(raw)

(* AsyncHeader(bytestring): self.raw is the text; no client is involved. *)
InitHeader ==
    /\ variant = "AsyncConnect"
    /\ ack = TRUE
    /\ connect_attempts = 5
    /\ send_attempts = 1
    /\ timeout = DefaultTimeout
    /\ hasQueue = FALSE
    /\ queue = <<>>
    /\ socket = 0
    /\ sockState = <<>>
    /\ tx = <<>>
    /\ rx = ""
    /\ remoteAck = TRUE
    /\ pc = "idle"
    /\ op = "none"
    /\ message = ""
    /\ attempts = 0
    /\ send_attempt = 0
    /\ sent = 0
    /\ acks = <<>>
    /\ connect_attempt = 0
    /\ refused = 0
    /\ accepted = 0
    /\ delays = 0
    /\ established = FALSE
    /\ result = "none"
    /\ calls = 0
    /\ script \in HeaderFields
    /\ hdr = HeaderBytes(script)
    /\ data = ""
    /\ msg_grp = <<>>
    /\ need = 0
    /\ chunk = 0
    /\ IdleInit

(* The outcome of a call that returned or raised what v says. *)
outcome(v) == IF v.err = "none" THEN "ok" ELSE v.err

(* A read of one property of the header object. *)
read_property ==
    /\ pc = "idle"
    /\ calls < MaxCalls
    /\ \E p \in Properties :
        /\ op' = p
        /\ value' = property(hdr, p)
        /\ result' = outcome(property(hdr, p))
    /\ calls' = calls + 1
    /\ UNCHANGED <<conf, queue, socket, sockState, tx, rx, remoteAck, pc, sendv, connv,
                   established, hdr, data, msg_grp, need, chunk, script, sockTimeout,
                   read_timeout, buffer, unsent, peer, recvs>>

NextHeader == read_property

SpecHeader == InitHeader /\ [][NextHeader]_vars

----------------------------------------------------------------------------
(* read(): the drain of the socket until a receive times out. Time is
   counted in ticks: a segment the remote sends after a gap g reaches a
   receive that waits up to t ticks when g < t. *)

(* The segments the remote may still send: the i-th carries a text that
   names it and follows the one before after a gap of 1..MaxTimeout. *)
Segments ==
    UNION {{[i \in 1..n |-> [gap |-> g[i], bytes |-> "s" \o DigitChar[i + 1]]] :
                g \in [1..n -> 1..MaxTimeout]} : n \in 0..MaxSegments}

(* What the remote does while the client reads: the bytes that have
   arrived already, and the segments still to come. *)
IdleScripts ==
    {[kind |-> "stream", pending |-> b, segments |-> sg] :
        b \in {"", "ab"}, sg \in Segments}

(* A client whose connect() returned, with self.timeout configured. *)
InitIdle ==
    /\ variant \in Variants
    /\ ack = TRUE
    /\ connect_attempts = 5
    /\ send_attempts = 1
    /\ timeout \in 0..MaxTimeout
    /\ hasQueue = FALSE
    /\ queue = <<>>
    /\ socket = 1
    /\ sockState = <<"connected">>
    /\ tx = IF variant = "Connect" THEN <<>> ELSE <<wire(AsyncOn)>>
    /\ script \in IdleScripts
    /\ rx = script.pending
    /\ unsent = script.segments
    /\ peer \in {"open", "closed"}
    /\ remoteAck = TRUE
    /\ pc = "idle"
    /\ op = "connect"
    /\ message = ""
    /\ attempts = 0
    /\ send_attempt = 0
    /\ sent = 0
    /\ acks = <<>>
    /\ connect_attempt = 1
    /\ refused = 0
    /\ accepted = 1
    /\ delays = startup_sleeps(variant)
    /\ established = TRUE
    /\ result = "ok"
    /\ calls = 0
    /\ hdr = ""
    /\ data = ""
    /\ msg_grp = <<>>
    /\ need = 0
    /\ chunk = 0
    /\ value = Value(0)
    /\ sockTimeout = NoTimeout
    /\ read_timeout = NoTimeout
    /\ buffer = ""
    /\ recvs = 0
    /\ args = NoArgs
    /\ NoRun

(* read(): if timeout is None: timeout = self.timeout *)
effective_timeout(arg, default) == IF arg = NoTimeout THEN default ELSE arg

(* read(): the exception of self.socket.setblocking(False), "none" if there
   is none. None has no setblocking; a closed socket raises OSError. *)
_setblocking_error(so, st) ==
    IF so = 0 THEN "AttributeError"
    ELSE IF st[so] = "closed" THEN "OSError"
    ELSE "none"

(* read(): the timeout of the socket once setblocking(False) has raised: a
   closed socket object takes the timeout 0 before the call fails; with no
   socket object there is nothing to change. *)
_setblocking_timeout(so, st, t) == IF so # 0 /\ st[so] = "closed" THEN 0 ELSE t

(* read() on socket state as it is once the call ended with outcome r. *)
read_ended(r, t) ==
    /\ pc' = "idle"
    /\ result' = r
    /\ sockTimeout' = t

(* read(timeout=t): the timeout is set on the socket and the buffer starts
   empty; c is the most bytes the transport hands over per receive. *)
read_call(t, c) ==
    /\ pc = "idle"
    /\ calls < MaxCalls
    /\ read_timeout' = t
    /\ chunk' = c
    /\ IF _setblocking_error(socket, sockState) # "none"
       THEN read_ended(_setblocking_error(socket, sockState),
                       _setblocking_timeout(socket, sockState, sockTimeout))
       ELSE /\ pc' = "read"
            /\ result' = "none"
            /\ sockTimeout' = effective_timeout(t, timeout)
    /\ op' = "read"
    /\ calls' = calls + 1
    /\ buffer' = ""
    /\ recvs' = 0
    /\ UNCHANGED <<conf, queue, socket, sockState, tx, rx, remoteAck, sendv, connv,
                   established, hdr, data, msg_grp, need, script, value, unsent, peer>>

(* read() of Connect and AsyncConnect, with no argument or with timeout=t. *)
read == \E t \in {NoTimeout} \cup 0..MaxTimeout, c \in {1, ReadSize} : read_call(t, c)

(* read() of the legacy STKConnect: it takes no argument and sets
   self.timeout on the socket. *)
STKConnect_read ==
    /\ variant = "STKConnect"
    /\ \E c \in {AsyncHeaderLen, ReadSize} : read_call(NoTimeout, c)

(* The segments still to come once t ticks have passed with none of them
   arriving; and the bytes of a segment that arrives just then. *)
later(sg, t) ==
    IF sg = <<>> THEN sg
    ELSE IF sg[1].gap <= t THEN Tail(sg)
    ELSE <<[gap |-> sg[1].gap - t, bytes |-> sg[1].bytes]>> \o Tail(sg)

just_arrived(sg, t) == IF sg # <<>> /\ sg[1].gap <= t THEN sg[1].bytes ELSE ""

(* read(): buffer += self.socket.recv(4096) returned got; rx1 and sg1 are
   what is pending and what is still to come afterwards. *)
read_received(got, rx1, sg1) ==
    /\ buffer' = buffer \o got
    /\ rx' = rx1
    /\ unsent' = sg1
    /\ recvs' = (recvs + 1) % RecvWrap
    /\ UNCHANGED <<pc, result, sockTimeout, value>>

(* read(): the receive raised socket.timeout: the socket is made blocking
   again and the buffer is returned; report_rm(), when it is the caller,
   returns the rows it makes of the buffer. *)
read_timed_out ==
    /\ read_ended("ok", NoTimeout)
    /\ rx' = just_arrived(unsent, sockTimeout)
    /\ unsent' = later(unsent, sockTimeout)
    /\ value' = IF reads_rows(op) THEN Value(report_rm_rows(variant, buffer)) ELSE value
    /\ UNCHANGED <<buffer, recvs>>

(* read(): the receive raised e, which read() does not catch. *)
read_raised(e) ==
    /\ read_ended(e, sockTimeout)
    /\ UNCHANGED <<buffer, rx, unsent, recvs, value>>

(* read(): one pass of its loop. A receive on a socket whose timeout is 0
   does not wait: with nothing pending it raises BlockingIOError. At the end
   of a stream the remote has closed, a receive returns no bytes at once. *)
read_pass ==
    /\ pc = "read"
    /\ IF sockState[socket] # "connected" THEN read_raised("OSError")
       ELSE IF rx # "" THEN read_received(recv(rx, ReadSize, chunk, peer).got,
                                          recv(rx, ReadSize, chunk, peer).rest, unsent)
       ELSE IF unsent # <<>> /\ unsent[1].gap < sockTimeout
       THEN read_received(recv(unsent[1].bytes, ReadSize, chunk, peer).got,
                          recv(unsent[1].bytes, ReadSize, chunk, peer).rest, Tail(unsent))
       ELSE IF unsent = <<>> /\ peer = "closed" THEN read_received("", rx, unsent)
       ELSE IF sockTimeout = 0 THEN read_raised("BlockingIOError")
       ELSE read_timed_out
    /\ UNCHANGED <<conf, queue, socket, sockState, tx, remoteAck, op, calls, sendv,
                   connv, established, hdr, data, msg_grp, need, chunk, script,
                   read_timeout, peer>>

NextIdle ==
    \/ read
    \/ read_pass
    \/ close

SpecIdle == InitIdle /\ [][NextIdle]_vars

(* The thread that runs read() keeps running: its loop is not starved. *)
FairSpecIdle == SpecIdle /\ WF_vars(read_pass)

----------------------------------------------------------------------------
(* get_single_message() of AsyncConnect (get_message() of STKConnect is the
   same code) on a blocking socket, one receive at a time, against a peer
   that has sent part of a packet, may send more of it, and then stays open
   or closes. *)

(* The bodies of the packet the remote sends. *)
Bodies == {"", "x", "xyz"}

(* One segment still to come. *)
Segment(b) == [gap |-> 1, bytes |-> b]

(* The ways the remote may send the bytes r that remain: none of them, all
   at once, the first only, or the first and then the others. *)
Remainders(r) ==
    {[segments |-> <<>>, whole |-> r = ""]}
    \cup (IF r = "" THEN {} ELSE {[segments |-> <<Segment(r)>>, whole |-> TRUE]})
    \cup (IF Len(r) < 2 THEN {}
          ELSE {[segments |-> <<Segment(SubSeq(r, 1, 1))>>, whole |-> FALSE],
                [segments |-> <<Segment(SubSeq(r, 1, 1)), Segment(SubSeq(r, 2, Len(r)))>>,
                 whole |-> TRUE]})

(* What the remote does: nothing at all, or the header of a packet and the
   first k bytes of its body at once, and the bytes that remain as
   Remainders says. *)
BodyScripts ==
    {[kind |-> "body", pending |-> "", segments |-> <<>>, whole |-> FALSE]}
    \cup UNION {UNION {{[kind |-> "body",
                         pending |-> SubSeq(AsyncPacket("AGI", "REPORT_RM", 1, 1, b), 1,
                                            AsyncHeaderLen + k),
                         segments |-> r.segments,
                         whole |-> r.whole] : r \in Remainders(SubSeq(b, k + 1, Len(b)))} :
                       k \in 0..Len(b)} : b \in Bodies}

(* self.socket.recv(n) on a blocking socket when the remote has segments
   still to send: what is pending, or else the next segment once it
   arrives, or else what recv gives on a stream with nothing to come. *)
blocking_recv(pending, sg, pr, n, c) ==
    IF n = 0 \/ pending # "" \/ sg = <<>>
    THEN [blocks |-> recv(pending, n, c, pr).blocks, got |-> recv(pending, n, c, pr).got,
          rx |-> recv(pending, n, c, pr).rest, unsent |-> sg]
    ELSE [blocks |-> FALSE, got |-> recv(sg[1].bytes, n, c, pr).got,
          rx |-> recv(sg[1].bytes, n, c, pr).rest, unsent |-> Tail(sg)]

(* while len(data) < hdr.data_length *)
body_short(d, pdl) == Len(d) < pdl

(* A connected AsyncConnect client, blocking socket; a peer that stays open
   sends the packet whole. *)
InitBody ==
    /\ variant = "AsyncConnect"
    /\ ack = TRUE
    /\ connect_attempts = 5
    /\ send_attempts = 1
    /\ timeout = DefaultTimeout
    /\ hasQueue = FALSE
    /\ queue = <<>>
    /\ socket = 1
    /\ sockState = <<"connected">>
    /\ tx = <<wire(AsyncOn)>>
    /\ script \in BodyScripts
    /\ rx = script.pending
    /\ unsent = script.segments
    /\ peer \in (IF script.whole THEN {"open", "closed"} ELSE {"closed"})
    /\ remoteAck = TRUE
    /\ pc = "idle"
    /\ op = "connect"
    /\ message = ""
    /\ attempts = 0
    /\ send_attempt = 0
    /\ sent = 0
    /\ acks = <<>>
    /\ connect_attempt = 1
    /\ refused = 0
    /\ accepted = 1
    /\ delays = startup_sleeps(variant)
    /\ established = TRUE
    /\ result = "ok"
    /\ calls = 0
    /\ hdr = ""
    /\ data = ""
    /\ msg_grp = <<>>
    /\ need = 0
    /\ chunk = 0
    /\ value = Value(0)
    /\ sockTimeout = NoTimeout
    /\ read_timeout = NoTimeout
    /\ buffer = ""
    /\ recvs = 0
    /\ args = NoArgs
    /\ NoRun

(* Where get_single_message() stands once a receive returned r (or never
   returns) with the body d collected so far, pdl being hdr.data_length. *)
body_received(r, d, pdl) ==
    /\ rx' = r.rx
    /\ unsent' = r.unsent
    /\ data' = d
    /\ need' = pdl
    /\ pc' = IF r.blocks THEN "blocked" ELSE IF body_short(d, pdl) THEN "body" ELSE "idle"
    /\ result' = IF r.blocks \/ body_short(d, pdl) THEN "none" ELSE "ok"

(* get_single_message() is called: the header is received, data_length is
   read from it, and the body is received a first time. *)
get_single_message_begin ==
    /\ pc = "idle"
    /\ calls < MaxCalls
    /\ \E c \in {1, ReadSize} :
        LET h   == blocking_recv(rx, unsent, peer, AsyncHeaderLen, c)
            pdl == data_length(h.got)
        IN  /\ chunk' = c
            /\ hdr' = h.got
            /\ IF h.blocks THEN body_received(h, "", 0)
               ELSE IF pdl.err # "none" \/ pdl.val < 0
               THEN /\ rx' = h.rx
                    /\ unsent' = h.unsent
                    /\ data' = ""
                    /\ need' = 0
                    /\ pc' = "idle"
                    /\ result' = IF pdl.err # "none" THEN pdl.err ELSE "ValueError"
               ELSE body_received(blocking_recv(h.rx, h.unsent, peer, pdl.val, c),
                                  blocking_recv(h.rx, h.unsent, peer, pdl.val, c).got,
                                  pdl.val)
    /\ op' = "get_single_message"
    /\ calls' = calls + 1
    /\ recvs' = 0
    /\ UNCHANGED <<conf, queue, socket, sockState, tx, remoteAck, sendv, connv,
                   established, msg_grp, script, value, sockTimeout, read_timeout,
                   buffer, peer>>

(* get_single_message(): one pass of its loop,
   data += self.socket.recv(pdl - len(data)). *)
get_single_message_pass ==
    /\ pc = "body"
    /\ LET r == blocking_recv(rx, unsent, peer, need - Len(data), chunk)
       IN  body_received(r, data \o r.got, need)
    /\ recvs' = (recvs + 1) % RecvWrap
    /\ UNCHANGED <<conf, queue, socket, sockState, tx, remoteAck, op, calls, sendv,
                   connv, established, hdr, msg_grp, chunk, script, value, sockTimeout,
                   read_timeout, buffer, peer>>

NextBody ==
    \/ get_single_message_begin
    \/ get_single_message_pass

SpecBody == InitBody /\ [][NextBody]_vars

(* The thread that runs get_single_message() keeps running: its loop is not
   starved. *)
FairSpecBody == SpecBody /\ WF_vars(get_single_message_pass)

----------------------------------------------------------------------------
(* report() and report_rm() of a connected client. *)

(* Which of the six optional arguments a call gives: none, one, two or
   all of them. *)
Given6 == {g \in [1..6 -> BOOLEAN] : Cardinality({i \in 1..6 : g[i]}) \in {0, 1, 2, 6}}

(* The arguments of a call: the two required ones, the destination file
   that report() takes, and a choice of optional arguments. *)
ReportArgsOf(fs, gs) ==
    {[form |-> f, ObjPath |-> "Satellite/Sat1", Style |-> "Solar AER",
      FilePath |-> <<"/tmp/aer.txt">>,
      TimePeriod |-> IF g[1] THEN <<"UseAccessTimes">> ELSE None,
      TimeStep |-> IF g[2] THEN <<"60">> ELSE None,
      AccessObjectPath |-> IF g[3] THEN <<"Facility/Fac1">> ELSE None,
      AdditionalData |-> IF g[4] THEN <<"Satellite/Sat2">> ELSE None,
      Summary |-> IF g[5] THEN <<"Include">> ELSE None,
      AllLines |-> IF g[6] THEN <<"On">> ELSE None] :
        f \in fs, g \in gs}

ReportArgs == ReportArgsOf({"positional", "keyword"}, Given6)

(* Row i of a report of n rows: a text that names it; the last one may be
   empty. *)
ReportRow(i, n, short) == IF short /\ i = n THEN "" ELSE "row" \o DigitChar[i + 1]

(* A row as the remote frames it for variant v. *)
ReportPacket(v, i, n, body) ==
    IF v = "AsyncConnect" THEN AsyncPacket("AGI", "REPORT_RM", n, i, body)
    ELSE SyncPacket("REPORT_RM", body)

(* What the remote sends after a Report_RM command: n rows, one segment
   each, every one following the one before after one tick; the first
   may come with bytes that belong to no row. *)
ReportScripts(v) ==
    {[kind |-> "report", rows |-> [i \in 1..n |-> ReportRow(i, n, sh)], lead |-> ld,
      segments |-> IF n = 0
                   THEN (IF ld = "" THEN <<>> ELSE <<[gap |-> 1, bytes |-> ld]>>)
                   ELSE [i \in 1..n |->
                            [gap |-> 1,
                             bytes |-> (IF i = 1 THEN ld ELSE "")
                                          \o ReportPacket(v, i, n, ReportRow(i, n, sh))]]] :
        n \in 0..MaxPackets, sh \in BOOLEAN, ld \in {"", "xy"}}

(* What connect() of variant v has written when it returns: the commands
   of its handshake. *)
RECURSIVE handshake_writes(_, _, _)
handshake_writes(v, ak, done) ==
    IF handshake(v, ak, done) = "" THEN <<>>
    ELSE <<wire(handshake(v, ak, done))>> \o handshake_writes(v, ak, handshake(v, ak, done))

(* What connect() has left unread when it returns: the remote acknowledges
   AsyncOn, and send() reads the acknowledgement only if self.ack. *)
handshake_unread(v, ak) ==
    IF v # "Connect" /\ ~wants_ack(ak) THEN AsyncPacket("AGI", "ACK", 1, 1, "") ELSE ""

(* A client of a variant in vs whose connect() returned, behind a facade
   that has a _queue or not (hqs), the arguments in as its caller has for
   the report calls, and a remote with a report to send. *)
ReportClient(vs, hqs, as) ==
    /\ variant \in vs
    /\ ack \in BOOLEAN
    /\ connect_attempts = 5
    /\ send_attempts = 1
    /\ timeout \in 1..MaxTimeout
    /\ hasQueue \in hqs
    /\ queue = IF hasQueue THEN <<"STK/CON: Accepting connection requests">> ELSE <<>>
    /\ socket = 1
    /\ sockState = <<"connected">>
    /\ tx = handshake_writes(variant, ack, "")
    /\ script \in ReportScripts(variant)
    /\ rx = handshake_unread(variant, ack)
    /\ unsent = script.segments
    /\ peer = "open"
    /\ remoteAck = (wire(AckOff) \notin {tx[i] : i \in 1..Len(tx)})
    /\ pc = "idle"
    /\ op = "connect"
    /\ message = ""
    /\ attempts = 0
    /\ send_attempt = 0
    /\ sent = 0
    /\ acks = <<>>
    /\ connect_attempt = 1
    /\ refused = 0
    /\ accepted = 1
    /\ delays = startup_sleeps(variant)
    /\ established = TRUE
    /\ result = "ok"
    /\ calls = 0
    /\ hdr = ""
    /\ data = ""
    /\ msg_grp = <<>>
    /\ need = 0
    /\ chunk = 0
    /\ value = Value(0)
    /\ sockTimeout = NoTimeout
    /\ read_timeout = NoTimeout
    /\ buffer = ""
    /\ recvs = 0
    /\ args \in as
    /\ NoRun

(* A Connect or AsyncConnect client used directly. *)
InitReport == ReportClient(Variants, {FALSE}, ReportArgs)

(* The call o, which ends in the client's method meth ("report" or
   "report_rm"), with the arguments a: the TypeError of the call, or the
   command is built and send(message) begins. *)
report_call(o, meth, a) ==
    /\ pc = "idle"
    /\ calls < MaxReports
    /\ op' = o
    /\ calls' = calls + 1
    /\ IF bind(variant, meth, a).err # "none"
       THEN /\ pc' = "idle"
            /\ result' = bind(variant, meth, a).err
            /\ UNCHANGED sendv
       ELSE StartSend(report_message(variant, meth, bind(variant, meth, a).val),
                      send_attempts)
    /\ UNCHANGED <<conf, queue, socket, sockState, tx, rx, remoteAck, connv,
                   established, hdr, data, msg_grp, need, script, value, sockTimeout,
                   buffer, unsent, peer, recvs>>

(* The call o of a method that sends Report_RM, with no keyword for read()
   or with timeout=t. *)
report_rm_call(o) ==
    \E t \in {NoTimeout, MaxTimeout} :
        /\ report_call(o, "report_rm", [args EXCEPT !.FilePath = None])
        /\ read_timeout' = t
        /\ chunk' = ReadSize

(* report(ObjPath, Style, FilePath, ...) *)
report ==
    /\ report_call("report", "report", args)
    /\ UNCHANGED <<read_timeout, chunk>>

(* report_rm(ObjPath, Style, ...) *)
report_rm == report_rm_call("report_rm")

(* self.read( **kwargs ) as report_rm() and STKConnect.report() call it: the
   TypeError of the call, "none" if there is none. STKConnect.read() takes
   no argument. *)
read_kwargs_error(v, t) == IF v = "STKConnect" /\ t # NoTimeout THEN "TypeError" ELSE "none"

(* report_rm(): self.send(message) returned and self.read() begins. *)
report_rm_read ==
    /\ pc = "report_rm"
    /\ IF read_kwargs_error(variant, read_timeout) # "none"
       THEN read_ended(read_kwargs_error(variant, read_timeout), sockTimeout)
       ELSE IF _setblocking_error(socket, sockState) # "none"
       THEN read_ended(_setblocking_error(socket, sockState),
                       _setblocking_timeout(socket, sockState, sockTimeout))
       ELSE /\ pc' = "read"
            /\ result' = "none"
            /\ sockTimeout' = effective_timeout(read_timeout, timeout)
    /\ buffer' = ""
    /\ recvs' = 0
    /\ UNCHANGED <<conf, queue, socket, sockState, tx, rx, remoteAck, op, calls, sendv,
                   connv, established, hdr, data, msg_grp, need, chunk, script, value,
                   read_timeout, unsent, peer>>

NextReport ==
    \/ report
    \/ report_rm
    \/ send_pass
    \/ report_rm_read
    \/ read_pass

SpecReport == InitReport /\ [][NextReport]_vars

----------------------------------------------------------------------------
(* The report calls made through a facade, and those of the legacy module:
   Run.report and Run.report_rm of stk/stk.py pass their arguments to the
   client; STKConnect.report of stk/__init__.py sends Report_RM and reads
   rows as AsyncConnect.report_rm does; STKLaunch.report calls it. *)

(* The optional arguments given: none or all of them. *)
FacadeArgs == ReportArgsOf({"positional"}, {g \in Given6 : \A i \in 1..6 : g[i] = g[1]})

InitFacade == ReportClient(ReadVariants, BOOLEAN, FacadeArgs)

(* Run.report: return self._connect.report( *args, **kwargs ) *)
Run_report ==
    /\ variant \in Variants
    /\ report_call("Run.report", "report", args)
    /\ UNCHANGED <<read_timeout, chunk>>

(* Run.report_rm: return self._connect.report_rm( *args, **kwargs ) *)
Run_report_rm ==
    /\ variant \in Variants
    /\ report_rm_call("Run.report_rm")

(* STKConnect.report(ObjPath, Style, ..., **kwargs) *)
STKConnect_report ==
    /\ variant = "STKConnect"
    /\ report_rm_call("STKConnect.report")

(* STKLaunch.report, which passes its arguments on, on the client STKLaunch.connect()
   built: STKConnect(host, port, timeout=_DEFAULT_TIMEOUT). *)
STKLaunch_report ==
    /\ variant = "STKConnect"
    /\ ack
    /\ timeout = DefaultTimeout
    /\ report_rm_call("STKLaunch.report")

NextFacade ==
    \/ Run_report
    \/ Run_report_rm
    \/ STKConnect_report
    \/ STKLaunch_report
    \/ send_pass
    \/ _dump_stk_errors
    \/ report_rm_read
    \/ read_pass

SpecFacade == InitFacade /\ [][NextFacade]_vars

----------------------------------------------------------------------------
(* The legacy client STKConnect of stk/__init__.py: its connect() takes the
   host and the port, does not sleep before _connect(), and sends AsyncOn
   and nothing else; its read() takes no argument; _connect(), send() and
   close() are the code of _AbstractConnect. *)

(* The host and port arguments of connect(host=None, port=None). *)
ConnectHosts == {None, <<"stkhost">>}
ConnectPorts == {None, <<"5002">>, <<"port">>}

(* STKConnect(): the default host and port, no queue. *)
InitLegacy == variant = "STKConnect" /\ NewClient /\ ~hasQueue

(* connect(host, port): self.host = str(host) and self.port = int(port) for
   the arguments given, then the socket, _connect() and the AsyncOn command.
   int(port) raising ends the call after self.host is assigned. *)
STKConnect_connect ==
    \E h \in ConnectHosts, p \in ConnectPorts :
        /\ host' = IF h = None THEN host ELSE h[1]
        /\ IF p # None /\ ~int(p[1]).ok
           THEN /\ pc = "idle"
                /\ calls < MaxCalls
                /\ op' = "connect"
                /\ result' = "ValueError"
                /\ calls' = calls + 1
                /\ UNCHANGED <<port, pc, queue, socket, sockState, tx, rx, remoteAck,
                               sendv, connv, established, readv>>
           ELSE /\ connect_call
                /\ port' = IF p = None THEN port ELSE int(p[1]).val
        /\ UNCHANGED <<client, args, kwargs, port_delta, run_attempts, launches, polls,
                       polled, procs, address, consumed>>

NextLegacy ==
    \/ STKConnect_connect
    \/ _connect
    \/ send
    \/ send_pass
    \/ STKConnect_read
    \/ read_pass
    \/ close

SpecLegacy == InitLegacy /\ [][NextLegacy]_vars

----------------------------------------------------------------------------
(* Run: construction, run() and its launch loop on Linux, the reader thread
   of each process launched, connect(), and the dump of the diagnostic
   queue. The application is installed and starts (Popen succeeds). *)

(* The markers _launch_linux() looks for in a diagnostic line. *)
LicenseMarker == "STK Engine Runtime license not found"
BindMarker == "STK/CON: Error binding to socket, error"
ReadyMarker == "STK/CON: Accepting connection requests"

(* The lines a child process may write to its error stream. *)
Lines == {LicenseMarker \o "\n", BindMarker \o " 98\n", ReadyMarker \o "\n",
          "STK/CON: Starting\n"}

RECURSIVE total_written(_)
(* The number of lines the processes ps have written between them. *)
total_written(ps) ==
    IF ps = <<>> THEN 0 ELSE Len(ps[Len(ps)].written) + total_written(SubSeq(ps, 1, Len(ps) - 1))

(* The options Run() is constructed with: at most one of host, port and
   async_messaging is given, with any run_attempts, and the client is to
   try to connect twice, the fewest attempts with which its connect() can
   return. *)
RunOptions ==
    {o \in [host : {None, <<"localhost">>, <<"5002">>},
            port : {None, <<6001>>},
            port_delta : {None},
            run_attempts : {None} \cup {<<k>> : k \in 2..MaxRunAttempts},
            connect_attempts : {<<2>>},
            async_messaging : {None, <<TRUE>>}] :
        Cardinality({f \in {"host", "port", "async_messaging"} : o[f] # None}) <= 1}

(* kwargs.get(name, default), the option being the slot o. *)
get(o, default) == IF o = None THEN default ELSE o[1]

(* Run.__init__: the attributes it sets, or the exception it raises.
   self.port is read from the option 'host'. *)
Run_init(kw) ==
    IF kw.host # None /\ ~int(kw.host[1]).ok THEN Raise("ValueError")
    ELSE Value([host |-> get(kw.host, DefaultHost),
                port |-> IF kw.host = None THEN DefaultPort ELSE int(kw.host[1]).val,
                port_delta |-> get(kw.port_delta, DefaultPortDelta),
                run_attempts |-> get(kw.run_attempts, DefaultRunAttempts)])

(* _AbstractConnect.__init__ with the same options: the address of the
   client. *)
client_address(kw) == <<get(kw.host, DefaultHost), get(kw.port, DefaultPort)>>

(* Run.connect(): the class of the client. *)
client_class(kw) == IF get(kw.async_messaging, FALSE) THEN "AsyncConnect" ELSE "Connect"

(* _AbstractConnect.__init__ with the same options: the client's
   connect_attempts. *)
client_connect_attempts(kw) == get(kw.connect_attempts, 5)

(* 'marker' in line *)
contains(line, marker) == find(line, marker) >= 0

(* _launch_linux(): self.port after the handling of a line. *)
shifted_port_never(line, p, d) == p

shifted_port(line, p, d) ==
    IF ~contains(line, LicenseMarker) /\ contains(line, BindMarker) THEN p + d ELSE p

(* The polls one launch makes at most: Run._launch_linux() gives up at
   'attempts >= self.run_attempts', STKLaunch._launch_linux() of the legacy
   module at 'attempts >= 5', whatever max_attempts is. o is the call that
   launches, n its attempt budget. *)
LegacyPolls == 5

poll_budget(o, n) == IF o = "STKLaunch.launch" THEN LegacyPolls ELSE n

(* _launch_linux_step giving up one pass later: attempts > run_attempts. *)
_launch_linux_step_late(g, p, n) ==
    IF p > n THEN "CalledProcessError"
    ELSE IF g = None THEN "sleep"
    ELSE IF contains(rstrip(g[1]), LicenseMarker) THEN "STKLicenseError"
    ELSE IF contains(rstrip(g[1]), BindMarker) THEN "OSError"
    ELSE IF contains(rstrip(g[1]), ReadyMarker) THEN "return"
    ELSE "loop"

(* _launch_linux(): how a pass of its loop ends, which got the slot g from
   get_nowait() (None for Empty) at pass p, n being the most passes it
   makes. The finally clause runs on every way out of the try statement and
   its raise replaces the return or the exception under way. *)
_launch_linux_step(g, p, n) ==
    IF p >= n THEN "CalledProcessError"
    ELSE IF g = None THEN "sleep"
    ELSE IF contains(rstrip(g[1]), LicenseMarker) THEN "STKLicenseError"
    ELSE IF contains(rstrip(g[1]), BindMarker) THEN "OSError"
    ELSE IF contains(rstrip(g[1]), ReadyMarker) THEN "return"
    ELSE "loop"

(* run(): one pass of its loop, in which _launch_linux() ended the way
   `launched` says, at attempt k of n: the finally clause runs whether
   _launch_linux() returned or raised. *)
run_step(launched, k, n) ==
    IF k >= n THEN "raise"
    ELSE IF launched = "return" THEN "return"
    ELSE "retry"

(* Process i is killed. *)
kill(ps, i) == [ps EXCEPT ![i].alive = FALSE]

(* Before Run() is called: no client, no process. *)
NewRun ==
    /\ variant = "Connect"
    /\ ack = TRUE
    /\ connect_attempts = 5
    /\ send_attempts = 1
    /\ timeout = DefaultTimeout
    /\ hasQueue = FALSE
    /\ queue = <<>>
    /\ socket = 0
    /\ sockState = <<>>
    /\ tx = <<>>
    /\ rx = ""
    /\ remoteAck = TRUE
    /\ pc = "new"
    /\ op = "none"
    /\ message = ""
    /\ attempts = 0
    /\ send_attempt = 0
    /\ sent = 0
    /\ acks = <<>>
    /\ connect_attempt = 0
    /\ refused = 0
    /\ accepted = 0
    /\ delays = 0
    /\ established = FALSE
    /\ result = "none"
    /\ calls = 0
    /\ hdr = ""
    /\ data = ""
    /\ msg_grp = <<>>
    /\ need = 0
    /\ chunk = 0
    /\ script = [kind |-> "none"]
    /\ value = Value(0)
    /\ sockTimeout = NoTimeout
    /\ read_timeout = NoTimeout
    /\ buffer = ""
    /\ unsent = <<>>
    /\ peer = "open"
    /\ recvs = 0
    /\ args = NoArgs
    /\ host = DefaultHost
    /\ port = DefaultPort
    /\ port_delta = DefaultPortDelta
    /\ run_attempts = DefaultRunAttempts
    /\ launches = 0
    /\ polls = 0
    /\ polled = None
    /\ procs = <<>>
    /\ address = <<>>
    /\ consumed = <<>>

(* A Run about to be constructed with some options. *)
InitRun == NewRun /\ kwargs \in RunOptions

(* Run(options): the constructor. *)
Run ==
    /\ pc = "new"
    /\ op' = "Run"
    /\ IF Run_init(kwargs).err # "none"
       THEN /\ pc' = "failed"
            /\ result' = Run_init(kwargs).err
            /\ UNCHANGED <<host, port, port_delta, run_attempts>>
       ELSE /\ pc' = "idle"
            /\ result' = "ok"
            /\ host' = Run_init(kwargs).val.host
            /\ port' = Run_init(kwargs).val.port
            /\ port_delta' = Run_init(kwargs).val.port_delta
            /\ run_attempts' = Run_init(kwargs).val.run_attempts
    /\ UNCHANGED <<client, args, kwargs, launches, polls, polled, procs, address, consumed,
                   queue, socket, sockState, tx, rx, remoteAck, calls, sendv, connv,
                   established, readv>>

(* run() or launch() is called as o, once, on a facade that has launched
   nothing. *)
launch_call(o) ==
    /\ pc = "idle"
    /\ procs = <<>>
    /\ pc' = "run"
    /\ op' = o
    /\ result' = "none"
    /\ launches' = 0
    /\ UNCHANGED <<client, args, kwargs, host, port, port_delta, run_attempts, polls,
                   polled, procs, address, consumed, queue, socket, sockState, tx, rx,
                   remoteAck, calls, sendv, connv, established, readv>>

(* Run.run() on Linux; Run.launch() is an alias of it. *)
run == launch_call("run")

(* self._queue = Queue() handing on what the queue replaced held. *)
new_queue_kept(old) == old

(* self._queue = Queue(): a new queue, empty, whatever the queue replaced
   held. *)
new_queue(old) == <<>>

(* run(): a pass of its loop begins. _launch_linux() starts the
   application on self.port, replaces self._queue by a new queue and starts
   the thread that fills it; the queue replaced stays with its thread. *)
run_pass ==
    /\ pc = "run"
    /\ launches' = launches + 1
    /\ procs' = Append(IF procs = <<>> THEN procs
                       ELSE [procs EXCEPT ![Len(procs)].q = queue],
                       [port |-> port, alive |-> TRUE, written |-> <<>>, pipe |-> <<>>,
                        q |-> <<>>])
    /\ queue' = new_queue(queue)
    /\ hasQueue' = TRUE
    /\ polls' = 0
    /\ pc' = "poll"
    /\ UNCHANGED <<variant, ack, connect_attempts, send_attempts, timeout, args, kwargs,
                   host, port, port_delta, run_attempts, polled, address, consumed, socket,
                   sockState, tx, rx, remoteAck, op, result, calls, sendv, connv,
                   established, readv>>

(* _launch_linux(): a pass of its loop as far as its finally clause:
   attempts += 1 and get_nowait(). On Empty the thread sleeps three seconds;
   a line is examined, and a bind failure moves self.port. The process runs
   on, and so does its reader thread, until the finally clause is reached. *)
_launch_linux_pass ==
    /\ pc = "poll"
    /\ LET g == get_nowait(queue)
       IN  /\ polls' = polls + 1
           /\ queue' = g.rest
           /\ polled' = IF g.got = None THEN None ELSE <<g.got[1].line>>
           /\ consumed' = IF g.got = None THEN consumed
                          ELSE Append(consumed, [item |-> g.got[1], by |-> "launch"])
           /\ port' = IF g.got = None THEN port
                      ELSE shifted_port(rstrip(g.got[1].line), port, port_delta)
           /\ pc' = IF g.got = None THEN "sleep" ELSE "finally"
    /\ UNCHANGED <<client, args, kwargs, host, port_delta, run_attempts, launches, procs,
                   address, socket, sockState, tx, rx, remoteAck, op, result, calls,
                   sendv, connv, established, readv>>

(* The way out of run() after a pass of _launch_linux() that ended with
   outcome o. *)
after_launch(o) ==
    IF o \in {"sleep", "loop"} THEN [pc |-> "poll", result |-> "none"]
    ELSE IF run_step(o, launches, run_attempts) = "retry"
    THEN [pc |-> "run", result |-> "none"]
    ELSE IF run_step(o, launches, run_attempts) = "return"
    THEN [pc |-> "idle", result |-> "ok"]
    ELSE [pc |-> "idle", result |-> "CalledProcessError"]

(* _launch_linux(): the finally clause of the pass, reached when the sleep
   is over or the line examined, and what run() does when _launch_linux()
   ends: the process is killed by the finally clause of _launch_linux() or
   by the except clause of run(), and run() sleeps before its next pass. *)
_launch_linux_finally ==
    /\ pc \in {"sleep", "finally"}
    /\ LET o == _launch_linux_step(polled, polls, poll_budget(op, run_attempts))
       IN  /\ procs' = IF o \in {"CalledProcessError", "STKLicenseError", "OSError"}
                       THEN kill(procs, Len(procs)) ELSE procs
           /\ pc' = after_launch(o).pc
           /\ result' = after_launch(o).result
    /\ polled' = None
    /\ UNCHANGED <<client, args, kwargs, host, port, port_delta, run_attempts, launches,
                   polls, address, consumed, queue, socket, sockState, tx, rx, remoteAck,
                   op, calls, sendv, connv, established, readv>>

(* Process i, running, writes a line to its error stream: its n-th. The
   processes write MaxLines lines between them. *)
child_write(i) ==
    /\ procs[i].alive
    /\ total_written(procs) < MaxLines
    /\ \E line \in Lines :
         procs' = [procs EXCEPT
                     ![i].written = Append(@, line),
                     ![i].pipe = Append(@, [proc |-> i, n |-> Len(procs[i].written) + 1,
                                            line |-> line])]
    /\ UNCHANGED <<client, args, kwargs, host, port, port_delta, run_attempts, launches,
                   polls, polled, address, consumed, queue, socket, sockState, tx, rx,
                   remoteAck, pc, op, result, calls, sendv, connv, established, readv>>

(* queue.put(line) putting the line twice. *)
put_twice(q, item) == Append(Append(q, item), item)

(* queue.put(line) *)
put(q, item) == Append(q, item)

(* _enqueue_output of process i: out.readline() returns the next line and
   queue.put(line) puts it on the queue the thread was started with. *)
_enqueue_output(i) ==
    /\ procs[i].pipe # <<>>
    /\ IF i = Len(procs)
       THEN /\ queue' = put(queue, Head(procs[i].pipe))
            /\ procs' = [procs EXCEPT ![i].pipe = Tail(@)]
       ELSE /\ queue' = queue
            /\ procs' = [procs EXCEPT ![i].pipe = Tail(@),
                                      ![i].q = put(@, Head(procs[i].pipe))]
    /\ UNCHANGED <<client, args, kwargs, host, port, port_delta, run_attempts, launches,
                   polls, polled, address, consumed, socket, sockState, tx, rx,
                   remoteAck, pc, op, result, calls, sendv, connv, established, readv>>

(* Run.connect(), called once, when run() has ended and the application it
   launched last is running: a client of the class async_messaging selects
   is built with the options the Run was built with, and its connect()
   begins. *)
Run_connect ==
    /\ procs # <<>>
    /\ procs[Len(procs)].alive
    /\ address = <<>>
    /\ connect_call
    /\ variant' = client_class(kwargs)
    /\ address' = client_address(kwargs)
    /\ connect_attempts' = client_connect_attempts(kwargs)
    /\ UNCHANGED <<ack, send_attempts, timeout, hasQueue, args, kwargs,
                   host, port, port_delta, run_attempts, launches, polls, polled, procs,
                   consumed>>

(* Run.send(message), called once Run.connect() has built the client: the
   client's send(message, attempts=1), and _dump_stk_errors() if it raises
   STKNackError. *)
Run_send_once ==
    /\ address # <<>>
    /\ pc = "idle"
    /\ calls < MaxCalls
    /\ StartSend(UserCommand, send_budget(Run_send_budget(None), send_attempts))
    /\ op' = "Run.send"
    /\ calls' = calls + 1
    /\ UNCHANGED <<conf, queue, socket, sockState, tx, rx, remoteAck, connv,
                   established, readv>>

(* Run.disconnect(): the sockets afterwards. self._connect.close() is called
   if a client was built (addr is its address, <<>> if none). *)
disconnected(addr, so, st) == IF addr = <<>> THEN st ELSE close_socket(so, st)

(* Run.disconnect(), called once Run.connect() has built the client: the
   client's close(). The Run keeps its client and its process. *)
Run_disconnect ==
    /\ address # <<>>
    /\ pc = "idle"
    /\ calls < MaxCalls
    /\ op' = "Run.disconnect"
    /\ result' = "ok"
    /\ calls' = calls + 1
    /\ sockState' = disconnected(address, socket, sockState)
    /\ UNCHANGED <<conf, queue, socket, tx, rx, remoteAck, pc, sendv, connv,
                   established, readv>>

(* Run.close(): the processes afterwards. self._process, the process launched
   last, is killed if there is one; the processes of earlier launches are
   not referenced any more. *)
Run_kill(ps) == IF ps = <<>> THEN ps ELSE kill(ps, Len(ps))

(* Run.close(), which Run.__del__() calls too: disconnect(), then the kill.
   It is the last call made on the Run. *)
Run_close ==
    /\ pc = "idle"
    /\ op' = "Run.close"
    /\ pc' = "closed"
    /\ result' = "ok"
    /\ sockState' = disconnected(address, socket, sockState)
    /\ procs' = Run_kill(procs)
    /\ UNCHANGED <<client, args, kwargs, host, port, port_delta, run_attempts, launches,
                   polls, polled, address, consumed, queue, socket, tx, rx, remoteAck, calls,
                   sendv, connv, established, readv>>

NextRun ==
    \/ Run
    \/ run
    \/ run_pass
    \/ _launch_linux_pass
    \/ _launch_linux_finally
    \/ \E i \in 1..Len(procs) : child_write(i)
    \/ \E i \in 1..Len(procs) : _enqueue_output(i)
    \/ Run_connect
    \/ _connect
    \/ Run_send_once
    \/ send_pass
    \/ _dump_stk_errors
    \/ Run_disconnect
    \/ Run_close

SpecRun == InitRun /\ [][NextRun]_vars

----------------------------------------------------------------------------
(* run() alone: the launches of a Run built with any run_attempts, zero and
   a negative number included, and the thread that executes run() keeps
   running. *)

LaunchOptions ==
    {[host |-> None, port |-> None, port_delta |-> None, run_attempts |-> n,
      connect_attempts |-> None, async_messaging |-> None] :
        n \in {None} \cup {<<k>> : k \in -1..MaxRunAttempts}}

InitLaunch == NewRun /\ kwargs \in LaunchOptions

NextLaunch ==
    \/ Run
    \/ run
    \/ run_pass
    \/ _launch_linux_pass
    \/ _launch_linux_finally
    \/ \E i \in 1..Len(procs) : child_write(i)
    \/ \E i \in 1..Len(procs) : _enqueue_output(i)

SpecLaunch == InitLaunch /\ [][NextLaunch]_vars

(* The thread that runs run() is not starved: its loops take their next
   pass and time.sleep(3) returns. *)
FairSpecLaunch ==
    /\ SpecLaunch
    /\ WF_vars(run_pass)
    /\ WF_vars(_launch_linux_pass)
    /\ WF_vars(_launch_linux_finally)

----------------------------------------------------------------------------
(* The legacy facade STKLaunch of stk/__init__.py: its launch() is the loop
   of Run.run() with max_attempts as its budget, and its _launch_linux()
   polls the queue up to five times whatever max_attempts is. Its connect()
   builds an STKConnect for the host and port of the facade, its send() and
   close() are those of Run. *)

(* The arguments STKLaunch() is constructed with, each given or not;
   stk_install_dir is given and names a directory that exists. *)
STKLaunchOptions ==
    {o \in [port : {None, <<"6001">>},
            max_attempts : {None} \cup {<<k>> : k \in 0..MaxRunAttempts},
            port_delta : {None}] :
        o.port = None \/ o.max_attempts = <<MaxRunAttempts>>}

(* STKLaunch.__init__: self.port = int(port), self.max_attempts =
   int(max_attempts), self.port_delta = int(port_delta), with the defaults
   5001, 5 and 1000. *)
STKLaunch_init(kw) ==
    [host |-> DefaultHost,
     port |-> IF kw.port = None THEN DefaultPort ELSE int(kw.port[1]).val,
     port_delta |-> get(kw.port_delta, DefaultPortDelta),
     max_attempts |-> get(kw.max_attempts, DefaultMaxAttempts)]

InitSTKLaunch == NewRun /\ kwargs \in STKLaunchOptions

(* STKLaunch(options): the constructor. run_attempts holds
   self.max_attempts. *)
STKLaunch ==
    /\ pc = "new"
    /\ op' = "STKLaunch"
    /\ pc' = "idle"
    /\ result' = "ok"
    /\ host' = STKLaunch_init(kwargs).host
    /\ port' = STKLaunch_init(kwargs).port
    /\ port_delta' = STKLaunch_init(kwargs).port_delta
    /\ run_attempts' = STKLaunch_init(kwargs).max_attempts
    /\ UNCHANGED <<client, args, kwargs, launches, polls, polled, procs, address, consumed,
                   queue, socket, sockState, tx, rx, remoteAck, calls, sendv, connv,
                   established, readv>>

(* STKLaunch.launch() on Linux *)
STKLaunch_launch == launch_call("STKLaunch.launch")

(* STKLaunch.connect(), called once, when launch() has ended and the
   application it launched last is running: STKConnect(host=self.host,
   port=self.port, timeout=_DEFAULT_TIMEOUT) is built, with connect_attempts
   5, send_attempts 1 and ack True, the defaults of the class, and its
   connect() begins. self.port is the port as the bind failures moved it. *)
STKLaunch_connect ==
    /\ procs # <<>>
    /\ procs[Len(procs)].alive
    /\ address = <<>>
    /\ connect_as("STKLaunch.connect", "STKConnect")
    /\ variant' = "STKConnect"
    /\ ack' = TRUE
    /\ connect_attempts' = 5
    /\ send_attempts' = 1
    /\ timeout' = DefaultTimeout
    /\ address' = <<host, port>>
    /\ UNCHANGED <<hasQueue, args, kwargs, host, port, port_delta, run_attempts, launches,
                   polls, polled, procs, consumed>>

(* STKLaunch.send(message), called once STKLaunch.connect() has built the
   client: the client's send(message, attempts=1), and _dump_stk_errors()
   if it raises STKNackError. *)
STKLaunch_send ==
    /\ address # <<>>
    /\ pc = "idle"
    /\ calls < MaxCalls
    /\ StartSend(UserCommand, send_budget(Run_send_budget(None), send_attempts))
    /\ op' = "STKLaunch.send"
    /\ calls' = calls + 1
    /\ UNCHANGED <<conf, queue, socket, sockState, tx, rx, remoteAck, connv,
                   established, readv>>

(* STKLaunch.close(), which STKLaunch.__del__() calls too: _close_connect()
   closes the socket of the client if one was built, then self.process, the
   process launched last, is killed if there is one. The facade keeps its
   client, its process and its queue. *)
STKLaunch_close ==
    /\ pc = "idle"
    /\ calls < MaxCalls
    /\ op' = "STKLaunch.close"
    /\ result' = "ok"
    /\ calls' = calls + 1
    /\ sockState' = disconnected(address, socket, sockState)
    /\ procs' = Run_kill(procs)
    /\ UNCHANGED <<client, args, kwargs, host, port, port_delta, run_attempts, launches,
                   polls, polled, address, consumed, queue, socket, tx, rx, remoteAck, pc,
                   sendv, connv, established, readv>>

NextSTKLaunch ==
    \/ STKLaunch
    \/ STKLaunch_launch
    \/ run_pass
    \/ _launch_linux_pass
    \/ _launch_linux_finally
    \/ \E i \in 1..Len(procs) : child_write(i)
    \/ \E i \in 1..Len(procs) : _enqueue_output(i)
    \/ STKLaunch_connect
    \/ _connect
    \/ STKLaunch_send
    \/ send_pass
    \/ _dump_stk_errors
    \/ STKLaunch_close

SpecSTKLaunch == InitSTKLaunch /\ [][NextSTKLaunch]_vars

----------------------------------------------------------------------------
(* Connection establishment and send/acknowledge: the claims. *)

(* C1: for every k with 1 <= k <= connect_attempts, a remote that accepts the
   k-th socket connect makes _connect(), and so connect(), succeed after
   exactly k attempts: it does not end with STKConnectError. *)
C1_AcceptWithinBudgetSucceeds ==
    (op = "connect" /\ accepted >= 1 /\ accepted <= connect_attempts)
        => (connect_attempt = accepted /\ result # "STKConnectError")

(* C2: when the remote refuses every attempt, _connect() raises
   STKConnectError after exactly connect_attempts attempts; it never makes
   more than max(1, connect_attempts) attempts; and exactly one delay is
   taken between two consecutive attempts. *)
C2_RefusedExhaustsBudget ==
    /\ connect_attempt <= Max(1, connect_attempts)
    /\ (op = "connect" /\ connect_attempt >= 1 /\ refused = connect_attempt)
          => IF connect_attempt = Max(1, connect_attempts)
             THEN pc = "idle" /\ result = "STKConnectError"
             ELSE pc = "_connect" /\ result = "none"
    /\ (op = "connect" /\ connect_attempt >= 1)
          => delays - startup_sleeps(variant)
                = IF pc = "_connect" THEN connect_attempt ELSE connect_attempt - 1

C2_Witness ==
    /\ op = "connect"
    /\ pc = "idle"
    /\ connect_attempts >= 2
    /\ refused = connect_attempts
    /\ connect_attempt = connect_attempts
    /\ delays = startup_sleeps(variant) + connect_attempts - 1
    /\ result = "STKConnectError"

(* The acknowledgement reads of the send() in progress found nothing but
   ACKs and NACKs. *)
OnlyAcks ==
    \A i \in 1..Len(acks) :
        \/ acks[i].status = "ok" /\ acks[i].got = "ACK"
        \/ acks[i].status = "STKNackError"

NackCount == Cardinality({i \in 1..Len(acks) : acks[i].status = "STKNackError"})

(* C3: with acknowledgement on and a budget a >= 1, send() writes the whole
   command once per attempt, returns at the first ACK and raises
   STKNackError once a NACKs are received: the writes number
   min(a, NACKs before the first ACK + 1). *)
C3_SendRetriesOnNack ==
    (pc = "idle" /\ op = "send" /\ ack /\ attempts >= 1 /\ sent >= 1 /\ OnlyAcks)
        => /\ sent = Min(attempts, NackCount + 1)
           /\ send_attempt = sent
           /\ Len(acks) = sent
           /\ \A i \in 1..sent : tx[Len(tx) - sent + i] = wire(message)
           /\ \A i \in 1..(sent - 1) : acks[i].status = "STKNackError"
           /\ (result = "ok") <=> (acks[sent].got = "ACK")
           /\ (result = "STKNackError") <=> (NackCount = attempts)
           /\ result \in {"ok", "STKNackError"}

C3_Witness ==
    /\ pc = "idle"
    /\ op = "send"
    /\ ack
    /\ attempts = 2
    /\ sent = 2
    /\ OnlyAcks
    /\ NackCount = 2
    /\ result = "STKNackError"

(* C4: with acknowledgement on, send() returns normally only if an ACK for
   the command was read. *)
C4_ReturnNeedsAck ==
    (pc = "idle" /\ op = "send" /\ established /\ ack /\ result = "ok")
        => (acks # <<>> /\ acks[Len(acks)].got = "ACK")

(* C5: a command NACKed until its budget is exhausted ends send() with
   STKNackError, and a call routed through the Run facade does not return
   normally for it. *)
C5_NackSurfaces ==
    (pc = "idle" /\ established /\ acks # <<>>
        /\ acks[Len(acks)].status = "STKNackError")
        => /\ op = "send" => result = "STKNackError"
           /\ op = "Run.send" => result # "ok"

(* C6: the writes of connect(): on AsyncConnect the first is AsyncOn, on
   Connect there is none; AckOff is written if and only if acknowledgement
   is off, last; nothing else is written, and nothing before the socket
   connect succeeded. *)
C6_HandshakeWrites ==
    op = "connect"
        => /\ \A i \in 1..Len(tx) : tx[i] \in {wire(AsyncOn), wire(AckOff)}
           /\ variant = "Connect" => \A i \in 1..Len(tx) : tx[i] # wire(AsyncOn)
           /\ (variant = "AsyncConnect" /\ tx # <<>>) => tx[1] = wire(AsyncOn)
           /\ \A i \in 1..Len(tx) : tx[i] = wire(AckOff) => (~ack /\ i = Len(tx))
           /\ tx # <<>> => accepted >= 1
           /\ (pc = "idle" /\ result = "ok")
                 => /\ variant = "AsyncConnect" => tx # <<>>
                    /\ (\E i \in 1..Len(tx) : tx[i] = wire(AckOff)) <=> ~ack

C6_Witness ==
    /\ op = "connect"
    /\ pc = "idle"
    /\ result = "ok"
    /\ variant = "AsyncConnect"
    /\ ~ack
    /\ tx = <<wire(AsyncOn), wire(AckOff)>>

(* C7: connect() never replaces a socket that is open and connected. *)
C7_NoReplaceWhileConnected ==
    [][(established /\ sockState[socket] = "connected") => socket' = socket]_vars

(* C14: in the synchronous variant a 3-byte acknowledgement token other
   than ACK or NAC ends send() at that attempt: it does not return success,
   it does not write the command again, and its caller gets the failure. *)
C14_UnknownTokenIsFatal ==
    (variant = "Connect" /\ op \in {"send", "Run.send"} /\ acks # <<>>
        /\ Len(acks[Len(acks)].got) = AckLen
        /\ acks[Len(acks)].got \notin {"ACK", "NAC"})
        => /\ pc = "idle"
           /\ result = "SystemExit"
           /\ sent = Len(acks)
           /\ send_attempt = sent

(* The token followed by more bytes: recv(2048) returns them and the call
   ends in sys.exit(1). *)
C14_ExitReached ==
    /\ variant = "Connect"
    /\ op = "send"
    /\ pc = "idle"
    /\ established
    /\ attempts = 2
    /\ sent = 1
    /\ acks = <<[status |-> "SystemExit", got |-> "ERR"]>>
    /\ result = "SystemExit"
    /\ rx = ""

(* The token with nothing after it: recv(2048) waits and send() has not
   ended. *)
C14_TokenThenSilence ==
    /\ variant = "Connect"
    /\ op = "send"
    /\ pc = "hung"
    /\ sent = 1
    /\ acks = <<[status |-> "hang", got |-> "ERR"]>>
    /\ rx = ""

(* C15: close() and disconnect() never raise, in any state; after the call
   the socket, if there is one, is closed; and a call that follows another
   one changes nothing of the client. *)
C15_CloseIdempotent ==
    [][(op' \in {"close", "disconnect"} /\ calls' = calls + 1)
          => /\ result' = "ok"
             /\ pc' = "idle"
             /\ socket' = socket
             /\ socket # 0 => sockState'[socket] = "closed"
             /\ \A i \in 1..Len(sockState) : i # socket => sockState'[i] = sockState[i]
             /\ Len(sockState') = Len(sockState)
             /\ UNCHANGED <<tx, rx, sockTimeout, established>>
             /\ op \in {"close", "disconnect"} => sockState' = sockState]_vars

C15_Witness ==
    /\ op = "close"
    /\ calls = 3
    /\ result = "ok"
    /\ variant = "Connect"
    /\ ack
    /\ established
    /\ tx = <<>>
    /\ socket = 1
    /\ sockState = <<"closed">>

----------------------------------------------------------------------------
(* The reads: the claims, under SpecRead. *)

(* The length of the header of the variant's framing. *)
HeaderLen(v) == IF v = "Connect" THEN SyncHeaderLen ELSE AsyncHeaderLen

(* C8: a declared-length read returns exactly the declared number of bytes
   whatever chunk sizes the transport delivers: the 3-byte ack token (4 with
   the last byte of a NACK), the 40-byte header and its body, the 42-byte
   header and its body are never short. *)
C8_ReadsExact ==
    (pc = "idle" /\ calls = 1)
        => /\ (op = "get_ack" /\ variant = "Connect" /\ script.kind = "ack")
                 => Len(hdr) \in {AckLen, AckLen + 1}
           /\ (op = "get_single_message" /\ script.kind = "message")
                 => /\ Len(hdr) = HeaderLen(variant)
                    /\ result = "ok" => Len(data) = script.length

(* The result the claim expects for the group the remote sent: the payload
   of packet p at index p-1, an empty last payload dropped. *)
ExpectedGroup ==
    [i \in 1..(IF script.payloads[script.total] = "" THEN script.total - 1
                ELSE script.total) |-> <<script.payloads[i]>>]

(* C9: for a group whose packet numbers are a permutation of
   1..total_packets, get_multi_message returns the payloads ordered by
   packet number whatever the order of arrival, with only an empty last
   payload dropped and no slot left unfilled. *)
C9_GroupOrderedByPacketNumber ==
    (pc = "idle" /\ calls = 1 /\ op = "get_multi_message" /\ script.kind = "group"
        /\ chunk >= Len(script.bytes))
        => (result = "ok" /\ msg_grp = ExpectedGroup)

(* The numeric fields of the 42-byte header, as slices of it. *)
NumericFields ==
    {<<3, 5>>, <<5, 6>>, <<6, 7>>, <<7, 9>>, <<24, 30>>, <<30, 34>>, <<34, 38>>, <<38, 42>>}

(* The header's sync marker is not AGI, or a numeric field of it is not a
   number. *)
Malformed(raw) ==
    \/ PySlice(raw, 0, 3) # "AGI"
    \/ \E f \in NumericFields : ~int(PySlice(raw, f[1], f[2])).ok

(* C10: get_single_message never accepts a 42-byte header whose sync marker
   is not AGI or one of whose numeric fields is not a number: the call
   fails, and no body is read for it. *)
C10_MalformedHeaderRejected ==
    (pc = "idle" /\ calls = 1 /\ op = "get_single_message" /\ variant = "AsyncConnect"
        /\ Len(hdr) = AsyncHeaderLen /\ Malformed(hdr))
        => (result # "ok" /\ data = "")

(* C12: for a well-formed async acknowledgement packet with n body bytes,
   AsyncConnect.get_ack returns without raising when the type is ACK and
   consumes exactly 42 + n bytes, so that what the remote sent next is what
   is left; when the type is NACK it raises STKNackError. *)
C12_AsyncAckRead ==
    (pc = "idle" /\ calls = 1 /\ op = "get_ack" /\ variant = "AsyncConnect"
        /\ script.kind = "ack" /\ script.type \in {"ACK", "NACK"})
        => IF script.type = "ACK"
           THEN result = "ok" /\ rx = script.next
           ELSE result = "STKNackError"

(* The text s without its first n characters. *)
Drop(s, n) == SubSeq(s, n + 1, Len(s))

(* C13: the synchronous acknowledgement read consumes exactly 3 bytes when
   it finds ACK and exactly 4 when it finds a NACK (NAC and one more byte),
   so the next read starts where the remote's next token starts. *)
C13_SyncAckConsumes ==
    (pc = "idle" /\ calls = 1 /\ op = "get_ack" /\ variant = "Connect"
        /\ script.kind = "ack")
        => /\ result = "ok"
                => /\ hdr = "ACK"
                   /\ rx = Drop(script.bytes, AckLen)
                   /\ rx = script.next
           /\ result = "STKNackError"
                => /\ hdr = "NACK"
                   /\ rx = Drop(script.bytes, AckLen + 1)
                   /\ rx = script.next
           /\ (chunk >= AckLen /\ script.token = "ACK") => result = "ok"
           /\ (chunk >= AckLen /\ script.token = "NACK") => result = "STKNackError"

C13_Witness ==
    /\ pc = "idle"
    /\ calls = 1
    /\ op = "get_ack"
    /\ variant = "Connect"
    /\ script.kind = "ack"
    /\ script.token = "NACK"
    /\ script.next = "ACK"
    /\ chunk = AckLen
    /\ result = "STKNackError"
    /\ rx = "ACK"

----------------------------------------------------------------------------
(* AsyncHeader: the claim, under SpecHeader. *)

(* C11: for a 42-character header built from supplied field values, each of
   the ten field properties returns the value supplied. *)
C11_FieldRoundTrip ==
    (script.kind = "header" /\ op \in Properties)
        => (value.err = "none" /\ value.val = script[op])

(* C18: a socket connect error other than a refusal is fatal at once:
   the pass of _connect() in which it happens ends _connect() with an
   error, with no delay taken and no further attempt, whatever is left of
   the budget. *)
C18_OtherConnectErrorIsFatal ==
    [][(/\ pc = "_connect"
        /\ connect_attempt' = connect_attempt + 1
        /\ refused' = refused
        /\ accepted' # connect_attempt')
          => /\ pc' = "idle"
             /\ result' \in {"OSError", "STKConnectError"}
             /\ result' = "OSError" <=> connect_attempt' < connect_attempts
             /\ delays' = delays
             /\ ~established'
             /\ tx' = tx]_vars

C18_Witness ==
    /\ op = "connect"
    /\ pc = "idle"
    /\ result = "OSError"
    /\ refused >= 1
    /\ connect_attempt = refused + 1
    /\ accepted # connect_attempt
    /\ connect_attempt < connect_attempts

(* The text m contains a newline. *)
HasNewline(m) == \E i \in 1..Len(m) : SubSeq(m, i, i) = "\n"

(* The fields of b between newlines, as b.split('\n') gives them. *)
RECURSIVE SplitLines(_)
SplitLines(b) ==
    IF ~HasNewline(b) THEN <<b>>
    ELSE LET i == CHOOSE k \in 1..Len(b) :
                    /\ SubSeq(b, k, k) = "\n"
                    /\ ~HasNewline(SubSeq(b, 1, k - 1))
         IN  <<SubSeq(b, 1, i - 1)>> \o SplitLines(SubSeq(b, i + 1, Len(b)))

(* C19: send() of a message that contains a newline is rejected: the pass
   that would write it ends the call with an error and writes nothing. *)
C19_NewlineRejected ==
    [][(pc = "send" /\ HasNewline(message))
          => /\ tx' = tx
             /\ pc' = "idle"
             /\ result' # "ok"]_vars

(* C20: one send attempt of a message without a newline makes one write,
   of the message followed by a single newline: split on the newline, the
   bytes written give back the message. *)
C20_WriteRoundTrip ==
    [][(pc = "send" /\ ~HasNewline(message) /\ tx' # tx)
          => /\ tx' = Append(tx, message \o "\n")
             /\ SplitLines(tx'[Len(tx')]) = <<message, "">>
             /\ op = "send" => sent' = sent + 1]_vars

C20_Witness ==
    /\ op = "send"
    /\ pc = "idle"
    /\ message = UserCommand
    /\ sent = 2
    /\ Len(tx) >= 2
    /\ tx[Len(tx)] = "Unload / *\n"
    /\ tx[Len(tx) - 1] = "Unload / *\n"

----------------------------------------------------------------------------
(* read(): the claims, under SpecIdle and FairSpecIdle. *)

(* The bytes of the segments that reach a receive waiting up to t ticks,
   up to the first one that does not. *)
RECURSIVE InTime(_, _)
InTime(sg, t) ==
    IF sg = <<>> \/ sg[1].gap >= t THEN ""
    ELSE sg[1].bytes \o InTime(Tail(sg), t)

(* The timeout the claim expects read() to use. *)
ExpectedTimeout == IF read_timeout = NoTimeout THEN timeout ELSE read_timeout

(* C16: read(timeout) on a connected socket returns, with no error, the
   bytes received before the first receive that finds nothing within the
   timeout, in arrival order, and an empty buffer when nothing arrives
   before it; the timeout is the argument, or self.timeout when there is
   none. *)
C16_ReadReturnsReceived ==
    (pc = "idle" /\ calls = 1 /\ op = "read" /\ sockState[socket] = "connected")
        => /\ result = "ok"
           /\ buffer = script.pending \o InTime(script.segments, ExpectedTimeout)
           /\ (script.pending = "" /\ InTime(script.segments, ExpectedTimeout) = "")
                 => buffer = ""

(* C17: read() terminates whenever the remote eventually stops sending,
   whether it goes idle or closes the connection. *)
C17_ReadTerminates == (pc = "read") ~> (pc = "idle")

----------------------------------------------------------------------------
(* report() and report_rm(): the claims, under SpecReport. *)

(* How many times sep occurs in s. *)
Occurrences(s, sep) ==
    Cardinality({k \in 1..(Len(s) - Len(sep) + 1) : SubSeq(s, k, k + Len(sep) - 1) = sep})

StartsWith(s, t) == Len(s) >= Len(t) /\ SubSeq(s, 1, Len(t)) = t
EndsWith(s, t) == Len(s) >= Len(t) /\ SubSeq(s, Len(s) - Len(t) + 1, Len(s)) = t

Quoted(t) == "\"" \o t \o "\""

(* The optional clauses in the order the claim fixes, the value of
   AdditionalData between double quotes. *)
ClauseOrder ==
    <<"AccessObject", "TimePeriod", "TimeStep", "AdditionalData", "Summary", "AllLines">>

Given(a, name) ==
    CASE name = "AccessObject" -> a.AccessObjectPath
      [] name = "TimePeriod" -> a.TimePeriod
      [] name = "TimeStep" -> a.TimeStep
      [] name = "AdditionalData" -> a.AdditionalData
      [] name = "Summary" -> a.Summary
      [] name = "AllLines" -> a.AllLines

RECURSIVE ExpectedClauses(_, _)
ExpectedClauses(a, i) ==
    IF i > Len(ClauseOrder) THEN ""
    ELSE (IF Given(a, ClauseOrder[i]) = None THEN ""
          ELSE " " \o ClauseOrder[i] \o " "
                   \o (IF ClauseOrder[i] = "AdditionalData"
                       THEN Quoted(Given(a, ClauseOrder[i])[1])
                       ELSE Given(a, ClauseOrder[i])[1]))
         \o ExpectedClauses(a, i + 1)

CommandName(o) == IF o = "report" THEN "ReportCreate" ELSE "Report_RM"

(* C21: for every choice of optional arguments, report() and report_rm()
   build a command that begins with the object path and the quoted style,
   ends with the optional clauses in the order AccessObject, TimePeriod,
   TimeStep, AdditionalData, Summary, AllLines, has each of them once if
   its argument is given and not at all otherwise, and, for report(),
   carries the quoted destination file. *)
C21_ReportCommandBuilt ==
    (op \in {"report", "report_rm"})
        => /\ StartsWith(message, CommandName(op) \o " */" \o args.ObjPath
                                     \o " Style " \o Quoted(args.Style))
           /\ EndsWith(message, ExpectedClauses(args, 1))
           /\ \A i \in 1..Len(ClauseOrder) :
                 Occurrences(message, " " \o ClauseOrder[i] \o " ")
                     = IF Given(args, ClauseOrder[i]) = None THEN 0 ELSE 1
           /\ op = "report"
                 => Occurrences(message, " File " \o Quoted(args.FilePath[1])) = 1

(* C22: report() is the same call on both variants: each accepts the
   object path, the style, the destination file and the optional
   arguments, and sends the command the other sends, File clause
   included. *)
C22_ReportSameOnBothVariants ==
    (op = "report")
        => /\ result # "TypeError"
           /\ \A v \in Variants :
                 /\ bind(v, "report", args).err = "none"
                 /\ message = report_message(v, "report", bind(v, "report", args).val)
           /\ Occurrences(message, " File " \o Quoted(args.FilePath[1])) = 1

(* What marks a row in the data the remote sends back: the head of the
   42-byte header of a REPORT_RM packet, or the name in the 40-byte header
   of the synchronous framing. *)
RowMarker(v) == IF v = "AsyncConnect" THEN ReportMarker ELSE "REPORT_RM"

(* C23: on both variants report_rm() sends the command, reads until idle,
   and returns the rows of the data read: k rows for a buffer with k >= 1
   row markers, and the empty sequence when nothing arrived. *)
C23_ReportRmReturnsRows ==
    (pc = "idle" /\ op = "report_rm" /\ result = "ok")
        => /\ tx[Len(tx)] = wire(message)
           /\ value.err = "none"
           /\ Occurrences(buffer, RowMarker(variant)) >= 1
                 => Len(value.val) = Occurrences(buffer, RowMarker(variant))
           /\ buffer = "" => value.val = <<>>

(* The offsets at which the marker occurs in b, and the i-th of them. *)
Marks(b) ==
    {k \in 1..(Len(b) - Len(ReportMarker) + 1) :
        SubSeq(b, k, k + Len(ReportMarker) - 1) = ReportMarker}

NthMark(b, i) ==
    CHOOSE k \in Marks(b) : Cardinality({j \in Marks(b) : j < k}) = i - 1

(* The text between the i-th marker of b and the next one, or the end. *)
AfterMark(b, i) ==
    SubSeq(b, NthMark(b, i) + Len(ReportMarker),
           IF i = Cardinality(Marks(b)) THEN Len(b) ELSE NthMark(b, i + 1) - 1)

RECURSIVE Bytes(_)
(* The bytes of the segments segs, in order. *)
Bytes(segs) == IF segs = <<>> THEN "" ELSE Head(segs).bytes \o Bytes(Tail(segs))

(* C24: AsyncConnect.report_rm returns one row for every occurrence of the
   marker 'AGI421009REPORT_RM      ' in the buffer, in buffer order: what
   follows the marker up to the next one, less its first 18 characters;
   what comes before the first marker is dropped. *)
C24_RowsSplitOnMarker ==
    (pc = "idle" /\ op = "report_rm" /\ result = "ok" /\ variant = "AsyncConnect")
        => /\ value.err = "none"
           /\ Len(value.val) = Cardinality(Marks(buffer))
           /\ \A i \in 1..Cardinality(Marks(buffer)) :
                 value.val[i] = SubSeq(AfterMark(buffer, i), 19, Len(AfterMark(buffer, i)))
           /\ buffer = Bytes(script.segments) => value.val = script.rows

C24_Witness ==
    /\ pc = "idle"
    /\ op = "report_rm"
    /\ result = "ok"
    /\ variant = "AsyncConnect"
    /\ script.lead = "xy"
    /\ Len(buffer) > Len(script.lead)
    /\ SubSeq(buffer, 1, 2) = "xy"
    /\ value.val = <<"row1", "row2", "">>

----------------------------------------------------------------------------
(* Run: the claims, under SpecRun. *)

(* The lines the launch loop of process i has read, in the order read. *)
LaunchRead(i) ==
    SelectSeq(consumed, LAMBDA c : c.by = "launch" /\ c.item.proc = i)

(* The launch loop of process i has read a line with the marker. *)
HasRead(i, marker) ==
    \E j \in 1..Len(LaunchRead(i)) : contains(LaunchRead(i)[j].item.line, marker)

(* run() has ended and nothing was called since. *)
RunEnded == pc = "idle" /\ op = "run"

(* C25: a diagnostic line with the license-failure marker read during a
   launch is immediately fatal: no launch follows the one that read it,
   whatever is left of run_attempts, and run() ends with STKLicenseError. *)
C25_LicenseFailureIsFatal ==
    \A i \in 1..Len(procs) :
        HasRead(i, LicenseMarker) =>
            /\ Len(procs) = i
            /\ RunEnded => result = "STKLicenseError"

(* The number of launches whose loop read a bind-failure line. *)
BindFailures == Cardinality({i \in 1..Len(procs) : HasRead(i, BindMarker)})

(* The port of a Run just constructed. *)
InitialPort == Run_init(kwargs).val.port

(* The launch of process i has ended: a later launch was made, or run()
   is past the finally clause of _launch_linux(). *)
LaunchEnded(i) == i < Len(procs) \/ pc \notin {"poll", "sleep", "finally"}

(* C26: a diagnostic line with the bind-failure marker read during a launch
   fails that launch, adds port_delta to the port once and kills the
   process; the next launch, if there is one, is on the shifted port: after
   k bind failures the port is the initial port + k * port_delta. *)
C26_BindFailureShiftsPort ==
    LET failed == [i \in 1..Len(procs) |-> HasRead(i, BindMarker)]
        first  == InitialPort
    IN  procs # <<>> =>
            /\ port = first + BindFailures * port_delta
            /\ \A i \in 1..Len(procs) :
                  /\ procs[i].port =
                        first + Cardinality({j \in 1..(i - 1) : failed[j]}) * port_delta
                  /\ failed[i] =>
                        /\ contains(LaunchRead(i)[Len(LaunchRead(i))].item.line, BindMarker)
                        /\ (i = Len(procs) /\ ~LaunchEnded(i)) => pc = "finally"
                        /\ LaunchEnded(i) => ~procs[i].alive
                        /\ (i = Len(procs) /\ LaunchEnded(i) /\ op = "run") =>
                              IF i < run_attempts THEN pc = "run"
                              ELSE pc = "idle" /\ result = "CalledProcessError"

(* Two launches failed to bind and run() has ended: the second launch was
   on the port shifted once and the port is now shifted twice. *)
C26_Witness ==
    /\ RunEnded
    /\ BindFailures = 2
    /\ procs[2].port = InitialPort + port_delta
    /\ port = InitialPort + 2 * port_delta

(* C27: Run.connect() called after run() connects the client to the host
   and port the application was last launched on, Run.host and Run.port,
   also after a bind failure has shifted the port. *)
C27_ClientConnectsToRunEndpoint ==
    (op = "connect" /\ address # <<>>) => address = <<host, port>>

(* The queue the reader thread of process i puts its lines on. *)
QueueOf(i) == IF i = Len(procs) THEN queue ELSE procs[i].q

(* The lines of process i taken off its queue, by the launch loop or by the
   dump, in the order taken. *)
Taken(i) ==
    LET t == SelectSeq(consumed, LAMBDA c : c.item.proc = i)
    IN  [k \in 1..Len(t) |-> t[k].item]

(* The lines process i wrote, numbered in the order written. *)
Written(i) ==
    [k \in 1..Len(procs[i].written) |-> [proc |-> i, n |-> k, line |-> procs[i].written[k]]]

(* C28: whatever the interleaving of the reader thread and the launch loop,
   every line a process wrote is put on its queue once and in the order
   written (the lines taken, then those queued, then those the thread has
   not read yet, are the lines written); the poll of the launch loop does
   not wait for a line: on an empty queue it takes nothing and reports
   Empty, on any other it takes the line at the head; and no queued line is
   consumed twice, by the launch loop or the dump. *)
C28_LinesQueuedOnceInOrder ==
    /\ [](\A i \in 1..Len(procs) : Taken(i) \o QueueOf(i) \o procs[i].pipe = Written(i))
    /\ [](\A j, k \in 1..Len(consumed) : consumed[j].item = consumed[k].item => j = k)
    /\ [][(pc = "poll" /\ polls' = polls + 1) =>
             IF queue = <<>>
             THEN pc' = "sleep" /\ polled' = None /\ queue' = <<>> /\ consumed' = consumed
             ELSE /\ pc' = "finally"
                  /\ polled' = <<Head(queue).line>>
                  /\ queue' = Tail(queue)
                  /\ consumed' = Append(consumed, [item |-> Head(queue), by |-> "launch"])]_vars

(* The polls of the first launch found the queue empty and the launch was
   given up. The second process wrote two lines: the launch loop took the
   first, and the second, which the thread put on the queue afterwards, was
   taken by the dump that followed the NACK of a command Run.send() had
   written. *)
C28_Witness ==
    /\ Len(procs) = 2
    /\ LaunchRead(1) = <<>>
    /\ Len(consumed) = 2
    /\ consumed[1] = [item |-> Written(2)[1], by |-> "launch"]
    /\ consumed[2] = [item |-> Written(2)[2], by |-> "dump"]
    /\ pc = "idle"
    /\ op = "Run.send"
    /\ sent = 1
    /\ acks # <<>> /\ acks[Len(acks)].status = "STKNackError"

(* The first line the launch loop of process i read has the ready marker. *)
ReadyFirst(i) ==
    LaunchRead(i) # <<>> /\ contains(LaunchRead(i)[1].item.line, ReadyMarker)

(* C29: run_attempts is the greatest number of launches: if the first line
   the launch loop reads in launch k <= run_attempts, the default
   run_attempts = 1 included, has the ready marker, run() returns after k
   launches; run() raises only if run_attempts launches failed. *)
C29_ReadyLaunchReturns ==
    /\ \A k \in 1..Len(procs) :
          (k <= run_attempts /\ ReadyFirst(k)) =>
              /\ Len(procs) = k
              /\ (op = "run" /\ pc # "finally") => (pc = "idle" /\ result = "ok")
    /\ (RunEnded /\ result # "ok") =>
          /\ Len(procs) = run_attempts
          /\ \A k \in 1..Len(procs) : ~HasRead(k, ReadyMarker)

(* C30: a Run constructed with the options host = h and port = p has
   Run.host = h and Run.port = p, 'localhost' and 5001 when not given, and
   launches the application with that port; giving a host name never makes
   the construction fail. *)
C30_RunHostAndPort ==
    (pc # "new") =>
        /\ result # "ValueError"
        /\ pc # "failed"
        /\ host = get(kwargs.host, DefaultHost)
        /\ procs = <<>> => port = get(kwargs.port, DefaultPort)
        /\ procs # <<>> => procs[1].port = get(kwargs.port, DefaultPort)

----------------------------------------------------------------------------
(* The session of a client: the claims, under SpecSession. *)

(* C31: assigning to ack after connect() has returned does not change the
   acknowledgement mode: every later send() performs the acknowledgement
   read if and only if acknowledgement was on when connect() was called,
   which is the mode connect() left the remote in. *)
C31_AckFixedAtConnect ==
    [][(pc = "send" /\ op \in {"send", "Run.send"} /\ established /\ sent' = sent + 1)
          => ((Len(acks') = Len(acks) + 1) <=> remoteAck)]_vars

(* C32: a command sent through Run.send without an attempts argument is
   attempted up to send_attempts times before a NACK counts as failure, the
   budget send() uses when it is given no attempts argument. *)
C32_RunSendUsesSendAttempts ==
    (op \in {"send", "Run.send"} /\ pc \in {"send", "idle", "hung"})
        => attempts = send_attempts

(* C33, as stated: the STKNackError send() raises once its budget is spent
   carries the text of the command that was NACKed, the message passed to
   send(), in both variants. *)
C33_CarriesMessagePassed ==
    (pc = "idle" /\ op = "send" /\ result = "STKNackError")
        => contains(send_error_text(variant, message), message)

(* C33, amended: the STKNackError send() raises once its budget is spent
   carries the text of the command that was NACKed: AsyncConnect names the
   message passed to send() as it is, Connect names it without the white
   space at its end, so that a message ending with white space is not in
   the text as it was passed. *)
C33_NackErrorCarriesCommand ==
    (pc = "idle" /\ op = "send" /\ result = "STKNackError")
        => LET text  == send_error_text(variant, message)
               named == IF variant = "Connect" THEN rstrip(message) ELSE message
           IN  /\ contains(text, "stk.send(\"" \o named \o "\")")
               /\ named # message => ~contains(text, message)

(* send() of a command that ends with a space has raised STKNackError on
   the synchronous client. *)
C33_Witness ==
    /\ pc = "idle"
    /\ op = "send"
    /\ result = "STKNackError"
    /\ variant = "Connect"
    /\ message = "Unload / * "
    /\ send_error_text(variant, message)
          = "STKNackError: STKNackError: NACK Received: stk.send(\"Unload / *\")"

----------------------------------------------------------------------------
(* send() and connect(): further claims, under Spec. *)

(* C34: with acknowledgement off, send() on a connected socket writes the
   command once, reads nothing from the socket, makes no second attempt and
   ends without STKNackError, whatever its budget. *)
C34_NoAckNoRead ==
    [][(pc = "send" /\ op \in {"send", "Run.send"} /\ ~ack
            /\ _send_error(socket, sockState) = "none")
          => /\ tx' = Append(tx, wire(message))
             /\ StartsWith(rx', rx)
             /\ acks' = acks
             /\ send_attempt = 0 /\ send_attempt' = 1 /\ sent' = 1
             /\ pc' = "idle"
             /\ result' = "ok"]_vars

(* send() with the largest budget has returned on a client with
   acknowledgement off, having written the command once. *)
C34_Witness ==
    /\ pc = "idle"
    /\ op = "send"
    /\ ~ack
    /\ attempts = MaxSendAttempts
    /\ sent = 1
    /\ acks = <<>>
    /\ result = "ok"
    /\ tx # <<>> /\ tx[Len(tx)] = wire(message)

(* The acknowledgements the remote sends for a command while its
   acknowledgement mode is on. *)
Acknowledgements(v) ==
    IF v = "AsyncConnect"
    THEN {AsyncPacket("AGI", "ACK", 1, 1, ""), AsyncPacket("AGI", "NACK", 1, 1, "")}
    ELSE {"ACK", "NACK"}

(* C38: connect() returns with every acknowledgement of the handshake read:
   when it has returned normally no acknowledgement sent by the remote
   during the handshake is pending on the socket ahead of the answer to the
   first command of the caller, on both variants and with ack on or off. *)
C38_NoStaleAckAfterConnect ==
    (pc = "idle" /\ op = "connect" /\ result = "ok" /\ established)
        => \A k \in Acknowledgements(variant) : ~StartsWith(rx, k)

----------------------------------------------------------------------------
(* Run: further claims, under SpecRun. *)

(* C37: whenever run() raises, no process it started is left running:
   every process launched has been killed before the error reaches the
   caller. *)
C37_NoProcessLeftWhenRunRaises ==
    (RunEnded /\ result # "ok") => \A i \in 1..Len(procs) : ~procs[i].alive

(* C39: the diagnostic lines inspected during launch k come only from the
   process started in launch k: every line a poll of _launch_linux() takes
   was written by the process of the current launch, and the queue polled
   holds lines of that process only, whenever the thread of an earlier
   process puts its lines. *)
C39_LaunchReadsOwnProcessOnly ==
    [][/\ \A j \in 1..Len(queue') : queue'[j].proc = Len(procs')
       /\ (pc = "poll" /\ Len(consumed') = Len(consumed) + 1)
             => /\ consumed'[Len(consumed')].by = "launch"
                /\ consumed'[Len(consumed')].item.proc = launches
                /\ launches = Len(procs)]_vars

(* The second launch took a line of its own process while the thread of
   the first process, killed, had put a line on the queue replaced. *)
C39_Witness ==
    /\ Len(procs) = 2
    /\ ~procs[1].alive
    /\ procs[1].q # <<>>
    /\ \E j \in 1..Len(consumed) : consumed[j].by = "launch" /\ consumed[j].item.proc = 2

----------------------------------------------------------------------------
(* run(): termination, under FairSpecLaunch. *)

(* C36: run() always terminates: it makes at most max(1, run_attempts)
   launches, each polls the diagnostic queue at most max(1, run_attempts)
   times, and then run() returns or raises. *)
C36_RunTerminates ==
    /\ [](/\ launches <= Max(1, run_attempts)
          /\ polls <= Max(1, run_attempts))
    /\ (pc \in {"run", "poll", "sleep", "finally"})
          ~> (pc = "idle" /\ op = "run" /\ result \in {"ok", "CalledProcessError"})

(* run() has ended after as many launches as run_attempts allows, the last
   of them having polled as many times as it may. *)
C36_Witness ==
    /\ RunEnded
    /\ run_attempts = MaxRunAttempts
    /\ launches = run_attempts
    /\ polls = run_attempts
    /\ result = "CalledProcessError"

----------------------------------------------------------------------------
(* get_single_message(): termination, under FairSpecBody. *)

(* C35: get_single_message() runs to completion or to an error whatever the
   peer does: when the peer closes before data_length bytes of the body
   have arrived, the call ends instead of looping forever. *)
C35_BodyReadEnds == (pc = "body" /\ peer = "closed") ~> (pc = "idle")
====
